---- MODULE Spec2Model ----
(***************************************************************************)
(* Verification model of the dAIgnostics clinical data portal: role        *)
(* resolution and session handling (AuthContext.tsx, Login.tsx), CSV       *)
(* parsing and upload (CSVUpload.tsx), the patient list filters            *)
(* (PatientList.tsx), and the patient / experiment records kept in the     *)
(* managed data store under its owner-match authorization rules            *)
(* (amplify/data/resource.ts, PatientDetails.tsx, PatientDashboard.tsx).   *)
(***************************************************************************)
EXTENDS Integers, Sequences, FiniteSets, TLC

VARIABLES
    qDoctor,        \* Doctor records the data API serves to the session's list queries
    qPatient,       \* Patient records the data API serves to the session's list queries
    session,        \* identity held by the identity provider for this browser, or NoIdent
    currentUser,    \* AuthProvider state: NoUser or [username, role]
    isLoading,      \* AuthProvider state: initial session check still running
    loginLoading,   \* Login form state `loading`
    lastAuth,       \* outcome of the last completed checkUser / login call
    revision,       \* which revision of CSVUpload is deployed: "scalar" or "spectral"
    csvRows,        \* the cells the chosen file was written from: <<header row, value row>>
    csvText,        \* the text of the chosen file
    uploading,      \* CSVUpload state `uploading`
    uploadStatus,   \* CSVUpload state `status`
    uploadError,    \* CSVUpload state `error`
    pipes,          \* handleFile calls in flight, each at its await
    lastParse,      \* what the last parseCSV call returned
    lastUpload,     \* how the last handleFile call ended
    routeId,        \* PatientDetails: the :id of the route
    patient,        \* PatientDetails state `patient`
    experimentTable, \* data store: the Experiment records, in creation order
    patients,       \* PatientList state `patients`
    searchQuery,    \* PatientList state `searchQuery`
    genderFilter,   \* PatientList state `genderFilter`
    minAge,         \* PatientList state `minAge`, the text of the number input
    maxAge,         \* PatientList state `maxAge`
    sortBy,         \* PatientList state `sortBy`
    today,          \* the local calendar date of the browser
    tz,             \* the time zone of the browser
    doctorTable,    \* data store: the Doctor records
    patientTable,   \* data store: the Patient records
    route,          \* the route shown: "/", "patient" or "experiment"
    pdExperiments,  \* PatientDetails state `experiments` (ids)
    doctors,        \* PatientDetails state `doctors`
    transferDoctorId, \* PatientDetails state `transferDoctorId`
    experiment,     \* ExperimentDetails state `experiment` (id, 0 when null)
    reportState,    \* ExperimentDetails: "none", "preview" or "error"
    dashExperiments, \* PatientDashboard state `experiments` (ids)
    pdError,        \* PatientDetails: state `error` is set
    patientName,    \* ExperimentDetails state `patientName`
    edError,        \* ExperimentDetails: state `error` is set by fetchExperiment
    lastOp,         \* the last handler that ran and whether its request succeeded
    lastTransfer,   \* the last successful transfer: patient id, from, to
    notice,         \* what the last handler showed the user about a failure, or NoNotice
    glue,           \* the serverless function invocation in progress, or its result
    calls,          \* the requests sent to other services, in order
    cognitoUsers,   \* identity provider: the accounts of the user pool
    fetches,        \* detail pages: the mount-effect fetches in flight
    narration,      \* ExperimentDetails: the narration player of the report preview
    password        \* create-patient-cognito: generatePassword's `password` and how far it has run

authVars == <<qDoctor, qPatient, session, currentUser, isLoading, loginLoading, lastAuth>>

fileVars == <<revision, csvRows, csvText>>

uploadVars == <<uploading, uploadStatus, uploadError, pipes, lastParse, lastUpload>>

pageVars == <<routeId, patient>>

filterVars == <<searchQuery, genderFilter, minAge, maxAge, sortBy>>

listVars == <<patients, filterVars>>

clockVars == <<today, tz>>

storeVars == <<doctorTable, patientTable>>

detailVars ==
    <<pdExperiments, doctors, transferDoctorId, experiment, reportState, dashExperiments, pdError,
      patientName, edError>>

historyVars == <<lastOp, lastTransfer, notice>>

glueVars == <<glue, calls, cognitoUsers>>

vars ==
    <<authVars, fileVars, uploadVars, pageVars, experimentTable, listVars, clockVars, password,
      storeVars, route, detailVars, historyVars, glueVars, fetches, narration>>

(***************************************************************************)
(* Bounds of the model.                                                    *)
(***************************************************************************)
MaxRecords == 1

\* Longest header row and value row of the files enumerated cell by cell.
MaxCols == 2

\* Experiment records the store holds, uploads in flight included.
MaxExperiments == 2

\* Patients in the list of the patient list specification.
MaxPatients == 2

(***************************************************************************)
(* Identities, records and query outcomes.                                 *)
(***************************************************************************)
Usernames == {"u1", "u2"}
Emails == {"e1", "e2"}
NoEmail == "noEmail"
NoId == "noId"
NoUser == [username |-> "none", role |-> "none"]
NoIdent == [username |-> "none", email |-> NoEmail]

Identities == [username : Usernames, email : Emails \cup {NoEmail}]

DoctorRecs == [username : Usernames, email : Emails]

PatientRecs == [cognitoId : Usernames \cup {NoId}, email : Emails \cup {NoEmail}]

QueryNames == {"doctorByUsername", "doctorByEmail", "patientByCognitoId", "patientByEmail"}

Roles == {"doctor", "patient", "unknown"}

SmallSubsets(S) == {T \in SUBSET S : Cardinality(T) <= MaxRecords}

Range(f) == {f[i] : i \in DOMAIN f}

(***************************************************************************)
(* Text.  A text is a sequence of symbols: the separators and white space  *)
(* are single characters, a header name or another run of letters is one   *)
(* symbol, digits, sign and decimal point are single characters.           *)
(***************************************************************************)
BOM == "BOM"
NL == "NL"
CR == "CR"
SP == "SP"
COMMA == "COMMA"

\* A trim for which U+FEFF is an ordinary character.
IsSpace_markKept(c) == c \in {SP, NL, CR}

\* String.prototype.trim removes white space and line terminators; U+FEFF
\* is white space for it.
IsSpace(c) == c \in {SP, NL, CR, BOM}

RECURSIVE TrimLeft(_)
TrimLeft(s) == IF s = <<>> THEN s ELSE IF IsSpace(Head(s)) THEN TrimLeft(Tail(s)) ELSE s

RECURSIVE TrimRight(_)
TrimRight(s) ==
    IF s = <<>> THEN s
    ELSE IF IsSpace(s[Len(s)]) THEN TrimRight(SubSeq(s, 1, Len(s) - 1)) ELSE s

Trim(s) == TrimRight(TrimLeft(s))

\* text.replace(/^\uFEFF/, ''): one leading byte order mark is removed.
StripBOM_none(s) == s

StripBOM(s) == IF s # <<>> /\ Head(s) = BOM THEN Tail(s) ELSE s

\* s.split(sep): an empty text splits into one empty piece.
\* The first position at or after i where s holds sep, or Len(s) + 1.
IndexOf(s, sep, i) ==
    LET hits == {j \in i..Len(s) : s[j] = sep}
    IN  IF hits = {} THEN Len(s) + 1 ELSE CHOOSE j \in hits : \A k \in hits : j <= k

RECURSIVE Split(_, _)
Split(s, sep) ==
    LET i == IndexOf(s, sep, 1)
    IN  IF i > Len(s) THEN <<s>>
        ELSE <<SubSeq(s, 1, i - 1)>> \o Split(SubSeq(s, i + 1, Len(s)), sep)

TrimAll(cells) == [i \in 1..Len(cells) |-> Trim(cells[i])]

(***************************************************************************)
(* parseFloat: leading white space is skipped, then the longest prefix     *)
(* made of an optional sign, digits, and an optional point with digits,    *)
(* holding at least one digit, is the number; NaN when there is none.  A   *)
(* number is kept as sign, whole part and the digits after the point.      *)
(***************************************************************************)
DigitSyms == {"0", "1", "2", "3", "4", "5", "6", "7", "8", "9"}

DigitVal(c) ==
    CASE c = "0" -> 0 [] c = "1" -> 1 [] c = "2" -> 2 [] c = "3" -> 3 [] c = "4" -> 4
      [] c = "5" -> 5 [] c = "6" -> 6 [] c = "7" -> 7 [] c = "8" -> 8 [] c = "9" -> 9

NaN == [nan |-> TRUE]

RECURSIVE DigitPrefix(_)
DigitPrefix(s) ==
    IF s = <<>> \/ Head(s) \notin DigitSyms THEN <<>>
    ELSE <<Head(s)>> \o DigitPrefix(Tail(s))

RECURSIVE NatOf(_)
NatOf(ds) == IF ds = <<>> THEN 0 ELSE 10 * NatOf(SubSeq(ds, 1, Len(ds) - 1)) + DigitVal(ds[Len(ds)])

RECURSIVE DropTrailingZeros(_)
DropTrailingZeros(ds) ==
    IF ds # <<>> /\ ds[Len(ds)] = "0" THEN DropTrailingZeros(SubSeq(ds, 1, Len(ds) - 1)) ELSE ds

parseFloat_acceptNaN(v) ==
    LET s == TrimLeft(v)
        signed == s # <<>> /\ Head(s) \in {"-", "+"}
        body == IF signed THEN Tail(s) ELSE s
        whole == DigitPrefix(body)
    IN  [nan |-> FALSE, neg |-> signed /\ Head(s) = "-", whole |-> NatOf(whole), frac |-> <<>>]

parseFloat(v) ==
    LET s == TrimLeft(v)
        signed == s # <<>> /\ Head(s) \in {"-", "+"}
        body == IF signed THEN Tail(s) ELSE s
        whole == DigitPrefix(body)
        rest == SubSeq(body, Len(whole) + 1, Len(body))
        frac == IF rest # <<>> /\ Head(rest) = "." THEN DigitPrefix(Tail(rest)) ELSE <<>>
    IN  IF whole = <<>> /\ frac = <<>> THEN NaN
        ELSE [nan |-> FALSE,
              neg |-> signed /\ Head(s) = "-" /\ (NatOf(whole) # 0 \/ DropTrailingZeros(frac) # <<>>),
              whole |-> NatOf(whole),
              frac |-> DropTrailingZeros(frac)]

isNaN(x) == x.nan

(***************************************************************************)
(* parseCSV of the scalar-statistics revision of CSVUpload: byte order     *)
(* mark removed, text trimmed and split into lines, the first two lines    *)
(* split on commas and trimmed cell by cell, rejected when the counts      *)
(* differ; generationDate is copied, the eight numeric headers are parsed  *)
(* and kept only when they are numbers.                                    *)
(***************************************************************************)
NumericHeaders ==
    {"peakCounts", "amplitude", "auc", "fwhm", "frequency", "snr", "skewness", "kurtosis"}

\* A header cell names a field when it consists of exactly that name.
IsName(cell, names) == Len(cell) = 1 /\ cell[1] \in names

Rejected(msg) == [ok |-> FALSE, data |-> <<>>, error |-> msg]

Accepted(d) == [ok |-> TRUE, data |-> d, error |-> ""]

Put(data, key, value) == [k \in DOMAIN data \cup {key} |-> IF k = key THEN value ELSE data[k]]

RECURSIVE FillScalar_keepNaN(_, _, _, _)
FillScalar_keepNaN(data, headers, values, i) ==
    IF i > Len(headers) THEN data
    ELSE IF IsName(headers[i], {"generationDate"})
         THEN FillScalar_keepNaN(Put(data, "generationDate", values[i]), headers, values, i + 1)
    ELSE IF IsName(headers[i], NumericHeaders)
         THEN FillScalar_keepNaN(Put(data, headers[i][1], parseFloat(values[i])), headers, values, i + 1)
    ELSE FillScalar_keepNaN(data, headers, values, i + 1)

RECURSIVE FillScalar(_, _, _, _)
FillScalar(data, headers, values, i) ==
    IF i > Len(headers) THEN data
    ELSE IF IsName(headers[i], {"generationDate"})
         THEN FillScalar(Put(data, "generationDate", values[i]), headers, values, i + 1)
    ELSE IF IsName(headers[i], NumericHeaders) /\ ~isNaN(parseFloat(values[i]))
         THEN FillScalar(Put(data, headers[i][1], parseFloat(values[i])), headers, values, i + 1)
    ELSE FillScalar(data, headers, values, i + 1)

parseCSV_noCountCheck(text, patientId) ==
    LET lines == Split(Trim(StripBOM(text)), NL)
    IN  IF Len(lines) < 2 THEN Rejected("CSV must have at least 2 rows (header and data)")
        ELSE LET headers == TrimAll(Split(lines[1], COMMA))
                 values == TrimAll(Split(lines[2], COMMA))
                 padded == [i \in 1..Len(headers) |-> IF i <= Len(values) THEN values[i] ELSE <<>>]
                 data == FillScalar([k \in {"patientId"} |-> patientId], headers, padded, 1)
             IN  IF DOMAIN data = {"patientId"}
                 THEN Rejected("No valid fields found in CSV. Check headers.")
                 ELSE Accepted(data)

parseCSV(text, patientId) ==
    LET lines == Split(Trim(StripBOM(text)), NL)
    IN  IF Len(lines) < 2 THEN Rejected("CSV must have at least 2 rows (header and data)")
        ELSE LET headers == TrimAll(Split(lines[1], COMMA))
                 values == TrimAll(Split(lines[2], COMMA))
             IN  IF Len(headers) # Len(values)
                 THEN Rejected("Header count does not match value count")
                 ELSE LET data == FillScalar([k \in {"patientId"} |-> patientId],
                                             headers, values, 1)
                      IN  IF DOMAIN data = {"patientId"}
                          THEN Rejected("No valid fields found in CSV. Check headers.")
                          ELSE Accepted(data)

(***************************************************************************)
(* parseCSV of the spectral revision of CSVUpload: no comparison of the    *)
(* counts; a header beyond the last value reads an undefined value, which  *)
(* parseFloat turns into NaN; the 'y' column is skipped; at least          *)
(* MinFeatures parsed features are required.                               *)
(***************************************************************************)
SPECTRAL_FEATURES == <<
    "ch0_total_power", "ch0_peak_freq", "ch0_peak_power", "ch0_centroid",
    "ch0_bandwidth", "ch0_rolloff95", "ch0_flatness", "ch0_entropy",
    "ch0_slope", "ch0_bp_uSlow", "ch0_bp_slow", "ch0_bp_mid",
    "ch0_bp_fast", "ch1_total_power", "ch1_peak_freq", "ch1_peak_power",
    "ch1_centroid", "ch1_bandwidth", "ch1_rolloff95", "ch1_flatness",
    "ch1_entropy", "ch1_slope", "ch1_bp_uSlow", "ch1_bp_slow",
    "ch1_bp_mid", "ch1_bp_fast", "ch2_total_power", "ch2_peak_freq",
    "ch2_peak_power", "ch2_centroid", "ch2_bandwidth", "ch2_rolloff95",
    "ch2_flatness", "ch2_entropy", "ch2_slope", "ch2_bp_uSlow",
    "ch2_bp_slow", "ch2_bp_mid", "ch2_bp_fast"
    >>

MinFeatures == 10

\* The loop over the header cells: the columns that count are those named
\* by a spectral feature whose value reads as a number; each of them is
\* counted, and a later column of the same name overwrites an earlier one.
FillSpectral(headers, values) ==
    LET counted == {i \in 1..Len(headers) :
                       /\ ~IsName(headers[i], {"y"})
                       /\ IsName(headers[i], Range(SPECTRAL_FEATURES))
                       /\ i <= Len(values)
                       /\ ~isNaN(parseFloat(values[i]))}
        last(k) == CHOOSE i \in counted :
                       headers[i][1] = k /\ \A j \in counted : headers[j][1] = k => j <= i
    IN  [features |-> [k \in {headers[i][1] : i \in counted} |-> parseFloat(values[last(k)])],
         found |-> Cardinality(counted)]

parseSpectralCSV(text) ==
    LET lines == Split(Trim(StripBOM(text)), NL)
    IN  IF Len(lines) < 2 THEN Rejected("CSV must have at least 2 rows (header and data)")
        ELSE LET headers == TrimAll(Split(lines[1], COMMA))
                 values == TrimAll(Split(lines[2], COMMA))
                 acc == FillSpectral(headers, values)
             IN  IF acc.found < MinFeatures
                 THEN Rejected("Only found too few spectral features. Expected 39 features.")
                 ELSE Accepted(acc.features)

(***************************************************************************)
(* determineRole: Doctor by username, Doctor by email (only when an email  *)
(* is known), then Patient by cognitoId, Patient by email.  A query named  *)
(* in `fail` throws; the throw is caught by the try block around its       *)
(* table's two queries, so the rest of that block is skipped.              *)
(*   "match": a query of the block returned a record;                      *)
(*   "none" : the block's queries returned nothing;                        *)
(*   "error": a query of the block threw and the catch swallowed it.       *)
(***************************************************************************)
\* A doctor block with one try around each query.
DoctorLookup_separateTry(username, email, D, fail) ==
    IF "doctorByUsername" \notin fail /\ {d \in D : d.username = username} # {} THEN "match"
    ELSE IF email = NoEmail THEN IF "doctorByUsername" \in fail THEN "error" ELSE "none"
    ELSE IF "doctorByEmail" \notin fail /\ {d \in D : d.email = email} # {} THEN "match"
    ELSE IF fail \cap {"doctorByUsername", "doctorByEmail"} # {} THEN "error"
    ELSE "none"

DoctorLookup(username, email, D, fail) ==
    IF "doctorByUsername" \in fail THEN "error"
    ELSE IF {d \in D : d.username = username} # {} THEN "match"
    ELSE IF email = NoEmail THEN "none"
    ELSE IF "doctorByEmail" \in fail THEN "error"
    ELSE IF {d \in D : d.email = email} # {} THEN "match"
    ELSE "none"

PatientLookup_noEmail(username, email, P, fail) ==
    IF "patientByCognitoId" \in fail THEN "error"
    ELSE IF {p \in P : p.cognitoId = username} # {} THEN "match"
    ELSE "none"

PatientLookup(username, email, P, fail) ==
    IF "patientByCognitoId" \in fail THEN "error"
    ELSE IF {p \in P : p.cognitoId = username} # {} THEN "match"
    ELSE IF email = NoEmail THEN "none"
    ELSE IF "patientByEmail" \in fail THEN "error"
    ELSE IF {p \in P : p.email = email} # {} THEN "match"
    ELSE "none"

determineRole_patientFirst(username, email, D, P, fail) ==
    IF PatientLookup(username, email, P, fail) = "match" THEN "patient"
    ELSE IF DoctorLookup(username, email, D, fail) = "match" THEN "doctor"
    ELSE "unknown"

determineRole_defaultDoctor(username, email, D, P, fail) ==
    IF DoctorLookup(username, email, D, fail) = "match" THEN "doctor"
    ELSE IF PatientLookup(username, email, P, fail) = "match" THEN "patient"
    ELSE "doctor"

determineRole(username, email, D, P, fail) ==
    IF DoctorLookup(username, email, D, fail) = "match" THEN "doctor"
    ELSE IF PatientLookup(username, email, P, fail) = "match" THEN "patient"
    ELSE "unknown"

\* The queries one call sends, in order: the first query of a block, and its
\* second when the first returned nothing and the identity has an email.
DoctorQueries(username, email, D, fail) ==
    IF "doctorByUsername" \in fail \/ {d \in D : d.username = username} # {} \/ email = NoEmail
    THEN <<"doctorByUsername">>
    ELSE <<"doctorByUsername", "doctorByEmail">>

PatientQueries(username, email, P, fail) ==
    IF "patientByCognitoId" \in fail \/ {p \in P : p.cognitoId = username} # {} \/ email = NoEmail
    THEN <<"patientByCognitoId">>
    ELSE <<"patientByCognitoId", "patientByEmail">>

QueriesSent(username, email, D, P, fail) ==
    DoctorQueries(username, email, D, fail)
        \o IF DoctorLookup(username, email, D, fail) = "match" THEN <<>>
           ELSE PatientQueries(username, email, P, fail)

(* What one resolved call leaves behind for the record of the last call:   *)
(* the outcome of each block, the queries sent and those that threw.       *)
Resolved(op, ident, D, P, fail) ==
    [op |-> op, ident |-> ident,
     issued |-> QueriesSent(ident.username, ident.email, D, P, fail),
     threw |-> Range(QueriesSent(ident.username, ident.email, D, P, fail)) \cap fail,
     doctorLookup |-> DoctorLookup(ident.username, ident.email, D, fail),
     patientLookup |-> IF DoctorLookup(ident.username, ident.email, D, fail) = "match"
                       THEN "notRun"
                       ELSE PatientLookup(ident.username, ident.email, P, fail),
     role |-> determineRole(ident.username, ident.email, D, P, fail)]

NotResolved(op) ==
    [op |-> op, ident |-> NoIdent, issued |-> <<>>, threw |-> {}, doctorLookup |-> "notRun",
     patientLookup |-> "notRun", role |-> "none"]

(***************************************************************************)
(* checkUser: the session check AuthProvider runs once when it mounts.     *)
(* out = "ok" when getCurrentUser and fetchUserAttributes both return.     *)
(***************************************************************************)
CheckOutcomes == {"ok", "getUserThrows", "attrsThrow"}

\* A session check that clears isLoading after the try block, not in a
\* finally clause.
checkUser_noFinally(out, fail, D, P) ==
    /\ isLoading
    /\ IF session # NoIdent /\ out = "ok"
       THEN LET role == determineRole(session.username, session.email, D, P, fail)
            IN  /\ currentUser' = [username |-> session.username, role |-> role]
                /\ lastAuth' = Resolved("checkUser", session, D, P, fail)
                /\ isLoading' = FALSE
       ELSE /\ currentUser' = NoUser
            /\ lastAuth' = NotResolved("checkUser")
            /\ isLoading' = isLoading
    /\ UNCHANGED <<session, loginLoading>>

checkUser(out, fail, D, P) ==
    /\ isLoading
    /\ IF session # NoIdent /\ out = "ok"
       THEN LET role == determineRole(session.username, session.email, D, P, fail)
            IN  /\ currentUser' = [username |-> session.username, role |-> role]
                /\ lastAuth' = Resolved("checkUser", session, D, P, fail)
       ELSE /\ currentUser' = NoUser
            /\ lastAuth' = NotResolved("checkUser")
    /\ isLoading' = FALSE
    /\ UNCHANGED <<session, loginLoading>>

(***************************************************************************)
(* login: signOut (errors ignored), signIn, and when isSignedIn the        *)
(* identity is read back and its role resolved.  LoginRejects tells the     *)
(* caller whether the returned promise rejects.                            *)
(***************************************************************************)
LoginOutcomes == {"signedIn", "nextStep", "signInThrows", "getUserThrows", "attrsThrow"}

LoginRejects(out) == out \in {"signInThrows", "getUserThrows", "attrsThrow"}

login(ident, out, fail, D, P) ==
    /\ session' = IF out \in {"signedIn", "getUserThrows", "attrsThrow"} THEN ident ELSE NoIdent
    /\ IF out = "signedIn"
       THEN LET role == determineRole(ident.username, ident.email, D, P, fail)
            IN  /\ currentUser' = [username |-> ident.username, role |-> role]
                /\ lastAuth' = Resolved("login", ident, D, P, fail)
       ELSE /\ currentUser' = currentUser
            /\ lastAuth' = NotResolved("login")

(***************************************************************************)
(* Login form submit: loading is set, login is awaited, and only a         *)
(* rejection clears loading again.  The form exists while no user is       *)
(* signed in; signing in unmounts it and a later mount starts it afresh.   *)
(***************************************************************************)
handleSubmit(ident, out, fail, D, P) ==
    /\ ~isLoading
    /\ currentUser = NoUser
    /\ ~loginLoading
    /\ login(ident, out, fail, D, P)
    /\ loginLoading' = IF LoginRejects(out) \/ out = "signedIn" THEN FALSE ELSE TRUE
    /\ UNCHANGED isLoading

logout(ok) ==
    /\ ~isLoading
    /\ currentUser # NoUser
    /\ IF ok
       THEN /\ session' = NoIdent
            /\ currentUser' = NoUser
       ELSE UNCHANGED <<session, currentUser>>
    /\ lastAuth' = NotResolved("logout")
    /\ UNCHANGED <<isLoading, loginLoading>>

(* Reloading the page mounts a fresh AuthProvider; the identity provider   *)
(* keeps its session.                                                      *)
Reload ==
    /\ ~isLoading
    /\ isLoading' = TRUE
    /\ currentUser' = NoUser
    /\ loginLoading' = FALSE
    /\ lastAuth' = NotResolved("reload")
    /\ UNCHANGED session

(***************************************************************************)
(* Dates.  A date of birth is the 'YYYY-MM-DD' text of a date input, kept  *)
(* as year, month and day; NoDate is the empty text.  new Date(text) reads *)
(* such a text as midnight UTC, while getFullYear, getMonth and getDate    *)
(* answer in local time: west of Greenwich that instant is still the       *)
(* evening of the day before.                                              *)
(***************************************************************************)
NoDate == [y |-> 0, m |-> 0, d |-> 0]

TimeZones == {"west", "utc", "east"}

IsLeap(y) == (y % 4 = 0 /\ y % 100 # 0) \/ y % 400 = 0

DaysIn(y, m) ==
    IF m = 2 THEN (IF IsLeap(y) THEN 29 ELSE 28)
    ELSE IF m \in {4, 6, 9, 11} THEN 30 ELSE 31

PrevDay(date) ==
    IF date.d > 1 THEN [date EXCEPT !.d = date.d - 1]
    ELSE IF date.m > 1 THEN [y |-> date.y, m |-> date.m - 1, d |-> DaysIn(date.y, date.m - 1)]
    ELSE [y |-> date.y - 1, m |-> 12, d |-> 31]

\* The local calendar date of new Date(text) in the browser's time zone.
LocalDate(date) == IF tz = "west" THEN PrevDay(date) ELSE date

NullAge == [null |-> TRUE, value |-> 0]

\* calculateAge; `today` is the local calendar date of new Date().
calculateAge(dateOfBirth) ==
    IF dateOfBirth = NoDate THEN NullAge
    ELSE LET birth == LocalDate(dateOfBirth)
             years == today.y - birth.y
             monthDiff == today.m - birth.m
         IN  [null |-> FALSE,
              value |-> IF monthDiff < 0 \/ (monthDiff = 0 /\ today.d < birth.d)
                        THEN years - 1 ELSE years]

\* parseInt: leading white space, an optional sign and the longest run of
\* digits; NaN when there is no digit.
parseInt(v) ==
    LET s == TrimLeft(v)
        signed == s # <<>> /\ Head(s) \in {"-", "+"}
        digits == DigitPrefix(IF signed THEN Tail(s) ELSE s)
    IN  IF digits = <<>> THEN [nan |-> TRUE, value |-> 0]
        ELSE [nan |-> FALSE,
              value |-> IF signed /\ Head(s) = "-" THEN 0 - NatOf(digits) ELSE NatOf(digits)]

(***************************************************************************)
(* Text of names and queries: sequences of letters and spaces.             *)
(***************************************************************************)
Lower(c) == CASE c = "A" -> "a" [] c = "B" -> "b" [] OTHER -> c

toLowerCase(s) == [i \in 1..Len(s) |-> Lower(s[i])]

includes(s, q) == \E i \in 1..(Len(s) - Len(q) + 1) : SubSeq(s, i, i + Len(q) - 1) = q

\* Collation rank of a character: space first, then the letters; the case of
\* a letter only breaks ties, lower case first.
Rank(c) == CASE c = SP -> 0 [] Lower(c) = "a" -> 1 [] Lower(c) = "b" -> 2 [] OTHER -> 3

CaseRank(c) == IF Lower(c) = c THEN 0 ELSE 1

\* Lexicographic comparison of two sequences of numbers: -1, 0 or 1.
RECURSIVE CompareKeys(_, _)
CompareKeys(a, b) ==
    IF a = <<>> /\ b = <<>> THEN 0
    ELSE IF a = <<>> THEN -1
    ELSE IF b = <<>> THEN 1
    ELSE IF Head(a) < Head(b) THEN -1
    ELSE IF Head(a) > Head(b) THEN 1
    ELSE CompareKeys(Tail(a), Tail(b))

localeCompare(a, b) ==
    LET primary == CompareKeys([i \in 1..Len(a) |-> Rank(a[i])], [i \in 1..Len(b) |-> Rank(b[i])])
    IN  IF primary # 0 THEN primary
        ELSE CompareKeys([i \in 1..Len(a) |-> CaseRank(a[i])],
                         [i \in 1..Len(b) |-> CaseRank(b[i])])

\* localeCompare of two 'YYYY-MM-DD' texts; the empty text sorts first.
DateCompare(a, b) == CompareKeys(<<a.y, a.m, a.d>>, <<b.y, b.m, b.d>>)

(***************************************************************************)
(* Records of the data store.  The store adds `owner`, the identity that   *)
(* created the record, to every record (allow.owner()); an update never    *)
(* changes it.                                                             *)
(***************************************************************************)
ListIds == <<"p1", "p2", "p3">>

PatientIds == Range(ListIds)

NoPatient ==
    [id |-> "none", firstName |-> <<>>, lastName |-> <<>>, email |-> NoEmail, cognitoId |-> NoId,
     doctor |-> "none", dateOfBirth |-> NoDate, gender |-> "", insuranceNumber |-> "",
     owner |-> "none"]

\* A patient of doctor `doc`, created by doc: as handleAddPatient creates it
\* (no cognitoId) or as the seed script does (cognitoId of the patient's
\* account).
PatientOf(id, doc, cognitoId, email) ==
    [id |-> id, firstName |-> <<"A", "b">>, lastName |-> <<"b", "a">>, email |-> email,
     cognitoId |-> cognitoId, doctor |-> doc, dateOfBirth |-> [y |-> 2000, m |-> 3, d |-> 15],
     gender |-> "Female", insuranceNumber |-> "i1", owner |-> doc]

(***************************************************************************)
(* CSVUpload.handleFile, one action per await.  A call in flight is a      *)
(* record of `pipes`: its position, the props it was called with, and what *)
(* it has computed so far.                                                 *)
(*   "reading"   : awaiting file.text()                                    *)
(*   "predicting": awaiting the predictExperiment query (spectral only)    *)
(*   "saving"    : awaiting Experiment.create                              *)
(***************************************************************************)
NoParse == [called |-> FALSE, result |-> Rejected("")]

RemoveAt(q, i) == [j \in 1..(Len(q) - 1) |-> IF j < i THEN q[j] ELSE q[j + 1]]

SetAt(q, i, x) == [q EXCEPT ![i] = x]

parseCSVOf(rev, text, patientId) ==
    IF rev = "scalar" THEN parseCSV(text, patientId) ELSE parseSpectralCSV(text)

\* handleFile up to its first await.  The spectral revision returns at once
\* while an upload is running; only it has the patientCognitoId prop.
handleFile(patientId, patientCognitoId) ==
    IF revision = "spectral" /\ uploading
    THEN /\ lastUpload' = "ignored"
         /\ UNCHANGED <<uploading, uploadStatus, uploadError, pipes, lastParse>>
    ELSE /\ uploadError' = ""
         /\ uploadStatus' = IF revision = "spectral" THEN "Parsing CSV..." ELSE uploadStatus
         /\ uploading' = TRUE
         /\ pipes' = Append(pipes, [pc |-> "reading", patientId |-> patientId,
                                    patientCognitoId |-> IF revision = "spectral"
                                                         THEN patientCognitoId ELSE NoId,
                                    data |-> <<>>, ml |-> "none"])
         /\ UNCHANGED <<lastParse, lastUpload>>

\* The message the outer catch of handleFile shows.
CatchMessage(rev) ==
    IF rev = "scalar" THEN "Failed to upload experiment data"
    ELSE "An unexpected error occurred during upload"

\* file.text() settles: parseCSV runs on the text, or the outer catch runs.
handleFile_text(i, text, readOk) ==
    /\ i \in 1..Len(pipes)
    /\ pipes[i].pc = "reading"
    /\ IF ~readOk
       THEN /\ uploadError' = CatchMessage(revision)
            /\ uploading' = FALSE
            /\ uploadStatus' = ""
            /\ pipes' = RemoveAt(pipes, i)
            /\ lastUpload' = "failed"
            /\ UNCHANGED lastParse
       ELSE LET result == parseCSVOf(revision, text, pipes[i].patientId)
            IN  /\ lastParse' = [called |-> TRUE, result |-> result]
                /\ IF ~result.ok
                   THEN /\ uploadError' = result.error
                        /\ uploading' = FALSE
                        /\ uploadStatus' = ""
                        /\ pipes' = RemoveAt(pipes, i)
                        /\ lastUpload' = "rejected"
                   ELSE /\ pipes' = SetAt(pipes, i,
                                [pipes[i] EXCEPT !.data = result.data,
                                                 !.pc = IF revision = "scalar" THEN "saving"
                                                        ELSE "predicting"])
                        /\ uploadStatus' = IF revision = "scalar" THEN uploadStatus
                                           ELSE "Calling ML models..."
                        /\ UNCHANGED <<uploadError, uploading, lastUpload>>

(***************************************************************************)
(* callMLAPI settles.  "prediction": the query returned the JSON of an     *)
(* MLResult; "errorBody": it returned JSON without the result              *)
(* fields; "noData": neither data nor errors; "errors": GraphQL errors,    *)
(* a rejected query or unparsable JSON, all caught inside callMLAPI.       *)
(***************************************************************************)
MLOutcomes == {"prediction", "errorBody", "noData", "errors"}

callMLAPI(i, out) ==
    /\ i \in 1..Len(pipes)
    /\ pipes[i].pc = "predicting"
    /\ IF out \in {"noData", "errors"}
       THEN /\ uploadError' = IF out = "errors" THEN "Failed to get ML predictions"
                              ELSE uploadError
            /\ uploading' = FALSE
            /\ uploadStatus' = ""
            /\ pipes' = RemoveAt(pipes, i)
            /\ lastUpload' = "noPrediction"
       ELSE /\ uploadStatus' = "Saving experiment..."
            /\ pipes' = SetAt(pipes, i, [pipes[i] EXCEPT !.pc = "saving", !.ml = out])
            /\ UNCHANGED <<uploadError, uploading, lastUpload>>
    /\ UNCHANGED lastParse

\* sanitizeNumber(mlResult.consensus_prediction): null unless a finite number.
sanitizeNumber(ml) ==
    IF ml = "prediction" THEN "number" ELSE "null"

\* The record Experiment.create stores for the call in flight `pipe`, made by
\* the identity `owner`; patientCognitoId is set only when the prop is truthy.
experimentData(pipe, owner) ==
    [owner |-> owner,
     patientId |-> pipe.patientId,
     patientCognitoId |-> pipe.patientCognitoId,
     payload |-> pipe.data,
     consensusPrediction |-> sanitizeNumber(pipe.ml)]

(***************************************************************************)
(* Experiment.create settles.  "created": the record is stored;            *)
(* "errors": the store refused it and the client returned the errors,      *)
(* which handleFile does not look at; "throws": the call rejected.         *)
(***************************************************************************)
CreateOutcomes == {"created", "errors", "throws"}

\* A save that keeps one experiment per patient, replacing the earlier one.
handleFile_create_upsert(i, out) ==
    /\ i \in 1..Len(pipes)
    /\ pipes[i].pc = "saving"
    /\ LET data == experimentData(pipes[i], session.username)
           old == {k \in 1..Len(experimentTable) : experimentTable[k].patientId = data.patientId}
       IN  experimentTable' = IF out # "created" \/ session = NoIdent THEN experimentTable
                              ELSE IF old = {} THEN Append(experimentTable, data)
                              ELSE [k \in 1..Len(experimentTable) |->
                                       IF k \in old THEN data ELSE experimentTable[k]]
    /\ uploadError' = IF out # "throws" THEN uploadError
                      ELSE IF revision = "scalar" THEN CatchMessage(revision)
                      ELSE "Failed to save experiment"
    /\ uploading' = FALSE
    /\ uploadStatus' = ""
    /\ pipes' = RemoveAt(pipes, i)
    /\ lastUpload' = IF out = "throws" THEN "saveFailed" ELSE "complete"
    /\ UNCHANGED lastParse

handleFile_create(i, out) ==
    /\ i \in 1..Len(pipes)
    /\ pipes[i].pc = "saving"
    /\ experimentTable' = IF out = "created" /\ session # NoIdent
                          THEN Append(experimentTable, experimentData(pipes[i], session.username))
                          ELSE experimentTable
    /\ uploadError' = IF out # "throws" THEN uploadError
                      ELSE IF revision = "scalar" THEN CatchMessage(revision)
                      ELSE "Failed to save experiment"
    /\ uploading' = FALSE
    /\ uploadStatus' = ""
    /\ pipes' = RemoveAt(pipes, i)
    /\ lastUpload' = IF out = "throws" THEN "saveFailed" ELSE "complete"
    /\ UNCHANGED lastParse

(***************************************************************************)
(* The files of the CSV specification.  A file is written from a header    *)
(* row and a value row of cells: the cells of a row are joined by commas,  *)
(* the rows by the line end of the framing.                                *)
(*   "plain"   : header NL values                                          *)
(*   "bomCrlf" : byte order mark, then header CR NL values CR NL           *)
(*   "newline" : header NL values NL                                       *)
(*   "thirdRow": header NL values NL a third row                           *)
(***************************************************************************)
Framings == {"plain", "bomCrlf", "newline", "thirdRow"}

RECURSIVE Join(_, _)
Join(cells, sep) ==
    IF cells = <<>> THEN <<>>
    ELSE IF Len(cells) = 1 THEN cells[1]
    ELSE cells[1] \o <<sep>> \o Join(Tail(cells), sep)

FileText(rows, framing) ==
    LET h == Join(rows[1], COMMA)
        v == Join(rows[2], COMMA)
    IN  CASE framing = "plain" -> h \o <<NL>> \o v
          [] framing = "bomCrlf" -> <<BOM>> \o h \o <<CR, NL>> \o v \o <<CR, NL>>
          [] framing = "newline" -> h \o <<NL>> \o v \o <<NL>>
          [] framing = "thirdRow" -> h \o <<NL>> \o v \o <<NL>> \o <<"9", COMMA, "9">>

SeqsUpTo(S, n) == UNION {[1..k -> S] : k \in 1..n}

Num12 == <<"1", "2">>

\* Value cells: a padded number with trailing text, an empty cell, and in
\* the wide rows a plain number and a word.
NarrowValues == {<<SP, "-", ".", "5", "0", "x", SP>>, <<>>}

WideValues == NarrowValues \cup {Num12, <<"x">>}

HeaderCells(rev) ==
    IF rev = "scalar" THEN {<<"peakCounts">>, <<"generationDate">>, <<"other">>}
    ELSE {<<"ch0_total_power">>, <<"y">>, <<SP, "ch1_slope">>}

NarrowRows(rev) == SeqsUpTo(HeaderCells(rev), MaxCols) \X SeqsUpTo(NarrowValues, MaxCols)

NineHeaders ==
    <<"generationDate", "peakCounts", "amplitude", "auc", "fwhm", "frequency", "snr",
      "skewness", "kurtosis">>

\* n value cells: the first two are a and b, the others the number 12.
ValuesOf(n, a, b) == [i \in 1..n |-> IF i = 1 THEN a ELSE IF i = 2 THEN b ELSE Num12]

Names(names, n) == [i \in 1..n |-> <<names[i]>>]

\* All nine recognized headers, with as many values, one fewer or one more.
WideScalarRows ==
    {<<Names(NineHeaders, 9), ValuesOf(n, a, b)>> :
        n \in {8, 9, 10}, a \in WideValues, b \in {Num12, <<"x">>}}

\* The first n spectral features, with or without the label column 'y' and
\* with or without a value for it.
WideSpectralRows ==
    {<<Names(SPECTRAL_FEATURES, n) \o (IF y THEN <<(<<"y">>)>> ELSE <<>>),
       ValuesOf(n, a, Num12) \o (IF yv THEN <<(<<"1">>)>> ELSE <<>>)>> :
        n \in {MinFeatures - 1, MinFeatures, Len(SPECTRAL_FEATURES)},
        y \in BOOLEAN, yv \in BOOLEAN, a \in WideValues}

RowsOf(rev) ==
    NarrowRows(rev) \cup (IF rev = "scalar" THEN WideScalarRows ELSE WideSpectralRows)

(***************************************************************************)
(* PatientList: filteredPatients, the memo over the list and the filter    *)
(* state, stage by stage: search, gender, age, sort.                       *)
(***************************************************************************)
FullName(p) == p.firstName \o <<SP>> \o p.lastName

SortName(p) == p.lastName \o <<SP>> \o p.firstName

\* A search that compares the names as they are written.
searchStage_caseSensitive(list, query) ==
    IF Trim(query) = <<>> THEN list
    ELSE SelectSeq(list, LAMBDA p : \/ includes(p.firstName, query)
                                   \/ includes(p.lastName, query)
                                   \/ includes(FullName(p), query)
                                   \/ includes(<<p.id>>, query))

searchStage(list, query) ==
    IF Trim(query) = <<>> THEN list
    ELSE LET q == toLowerCase(query)
         IN  SelectSeq(list, LAMBDA p : \/ includes(toLowerCase(p.firstName), q)
                                        \/ includes(toLowerCase(p.lastName), q)
                                        \/ includes(toLowerCase(FullName(p)), q)
                                        \/ includes(toLowerCase(<<p.id>>), q))

genderStage(list, gender) ==
    IF gender = "all" THEN list ELSE SelectSeq(list, LAMBDA p : p.gender = gender)

ageStage(list, lo, hi) ==
    LET afterMin == IF lo = <<>> THEN list
                    ELSE SelectSeq(list, LAMBDA p :
                            LET age == calculateAge(p.dateOfBirth)
                            IN  ~age.null /\ ~parseInt(lo).nan /\ age.value >= parseInt(lo).value)
    IN  IF hi = <<>> THEN afterMin
        ELSE SelectSeq(afterMin, LAMBDA p :
                LET age == calculateAge(p.dateOfBirth)
                IN  ~age.null /\ ~parseInt(hi).nan /\ age.value <= parseInt(hi).value)

SortOptions == {"name-asc", "name-desc", "age-asc", "age-desc", "newest", "oldest"}

\* calculateAge(...) ?? 0
AgeOrZero(p) ==
    LET age == calculateAge(p.dateOfBirth) IN IF age.null THEN 0 ELSE age.value

\* The comparator of result.sort: negative, zero or positive.
comparator(option, a, b) ==
    CASE option = "name-asc" -> localeCompare(SortName(a), SortName(b))
      [] option = "name-desc" -> localeCompare(SortName(b), SortName(a))
      [] option = "age-asc" -> AgeOrZero(a) - AgeOrZero(b)
      [] option = "age-desc" -> AgeOrZero(b) - AgeOrZero(a)
      [] option = "newest" -> DateCompare(b.dateOfBirth, a.dateOfBirth)
      [] option = "oldest" -> DateCompare(a.dateOfBirth, b.dateOfBirth)
      [] OTHER -> 0

\* Array.prototype.sort is stable: x goes behind every element that does not
\* compare greater than it.
RECURSIVE InsertSorted(_, _, _)
InsertSorted(sorted, x, option) ==
    IF sorted # <<>> /\ comparator(option, sorted[Len(sorted)], x) > 0
    THEN Append(InsertSorted(SubSeq(sorted, 1, Len(sorted) - 1), x, option),
                sorted[Len(sorted)])
    ELSE Append(sorted, x)

RECURSIVE sortStage(_, _)
sortStage(list, option) ==
    IF list = <<>> THEN <<>>
    ELSE InsertSorted(sortStage(SubSeq(list, 1, Len(list) - 1), option), list[Len(list)], option)

filteredPatients ==
    sortStage(ageStage(genderStage(searchStage(patients, searchQuery), genderFilter),
                       minAge, maxAge),
              sortBy)

setSearchQuery(v) ==
    /\ searchQuery' = v
    /\ UNCHANGED <<patients, genderFilter, minAge, maxAge, sortBy>>

setGenderFilter(v) ==
    /\ genderFilter' = v
    /\ UNCHANGED <<patients, searchQuery, minAge, maxAge, sortBy>>

\* A sort that orders the fetched list itself.
setSortBy_inPlace(v) ==
    /\ sortBy' = v
    /\ patients' = sortStage(patients, v)
    /\ UNCHANGED <<searchQuery, genderFilter, minAge, maxAge>>

\* The memo sorts a copy, [...patients].
setSortBy(v) ==
    /\ sortBy' = v
    /\ UNCHANGED <<patients, searchQuery, genderFilter, minAge, maxAge>>

setMinAge(v) ==
    /\ minAge' = v
    /\ UNCHANGED <<patients, searchQuery, genderFilter, maxAge, sortBy>>

setMaxAge(v) ==
    /\ maxAge' = v
    /\ UNCHANGED <<patients, searchQuery, genderFilter, minAge, sortBy>>

clearFilters ==
    /\ searchQuery' = <<>>
    /\ genderFilter' = "all"
    /\ minAge' = <<>>
    /\ maxAge' = <<>>
    /\ sortBy' = "name-asc"
    /\ UNCHANGED patients

(***************************************************************************)
(* The data API under the schema's authorization rules.  `caller` is the   *)
(* identity the request is signed with.                                    *)
(*   Doctor    : allow.owner()                                             *)
(*   Patient   : allow.owner(), allow.ownerDefinedIn('cognitoId')          *)
(*   Experiment: allow.owner(), allow.ownerDefinedIn('patientCognitoId')   *)
(***************************************************************************)
CanAccessDoctor(d, caller) == d.owner = caller

CanAccessPatient(p, caller) == p.owner = caller \/ p.cognitoId = caller

\* allow.authenticated() in the place of the two owner rules.
CanAccessExperiment_authenticated(e, caller) == caller \in Usernames

CanAccessExperiment(e, caller) == e.owner = caller \/ e.patientCognitoId = caller

Caller == session.username

\* Doctor.list / Patient.list / Experiment.list: the records the caller may read.
ListDoctors(caller) == {d \in doctorTable : CanAccessDoctor(d, caller)}

ListPatients(caller) == {p \in patientTable : CanAccessPatient(p, caller)}

ListExperiments(caller) ==
    {i \in 1..Len(experimentTable) : CanAccessExperiment(experimentTable[i], caller)}

\* Patient.get: the record, or NoPatient (data null).
GetPatient(id, caller) ==
    IF \E p \in ListPatients(caller) : p.id = id
    THEN CHOOSE p \in ListPatients(caller) : p.id = id
    ELSE NoPatient

\* Patient.update: the fields of `changes` replace those of the record; the
\* store refuses (and returns errors) when the caller may not access it.
Merge(p, changes) == [f \in DOMAIN p |-> IF f \in DOMAIN changes THEN changes[f] ELSE p[f]]

UpdatePatient(id, changes, caller) ==
    {IF p.id = id /\ CanAccessPatient(p, caller) THEN Merge(p, changes) ELSE p : p \in patientTable}

\* The records of S as a list, in the order of their ids.
AsList(S) ==
    LET ids == SelectSeq(ListIds, LAMBDA id : \E p \in S : p.id = id)
    IN  [i \in 1..Len(ids) |-> CHOOSE p \in S : p.id = ids[i]]

(***************************************************************************)
(* Screens.  AppContent gives the dashboard routes to role 'patient' and   *)
(* the doctor routes to every other signed-in user.  A screen that mounts  *)
(* starts from its initial state.                                          *)
(***************************************************************************)
SignedIn == ~isLoading /\ currentUser # NoUser

DoctorScreens == SignedIn /\ currentUser.role # "patient"

PatientScreens == SignedIn /\ currentUser.role = "patient"

\* PatientDetails renders the patient, its buttons and the upload area.
PatientShown == DoctorScreens /\ route = "patient" /\ patient # NoPatient /\ ~pdError

ListExpIds == <<"x1", "x2", "x3", "x4">>

ScreensMount ==
    /\ patients' = <<>>
    /\ patient' = NoPatient
    /\ pdExperiments' = {}
    /\ pdError' = FALSE
    /\ doctors' = {}
    /\ transferDoctorId' = ""
    /\ experiment' = 0
    /\ reportState' = "none"
    /\ dashExperiments' = {}
    /\ patientName' = <<>>
    /\ edError' = FALSE
    /\ uploading' = FALSE
    /\ uploadStatus' = ""
    /\ uploadError' = ""
    /\ lastParse' = NoParse
    /\ lastUpload' = "none"
    /\ UNCHANGED <<pipes, searchQuery, genderFilter, minAge, maxAge, sortBy>>

\* What lastOp records: the handler, when its request succeeded.
Did(op, ok) == IF ok THEN op ELSE "failed"

(***************************************************************************)
(* What `notice` records of the last handler: the request to a back end    *)
(* that failed in it, if one did, and what the user was shown about it: a  *)
(* "message" rendered from an error state, an "alert", or nothing ("none": *)
(* at most a console line).                                                *)
(***************************************************************************)
NoNotice == [failed |-> FALSE, request |-> "none", kind |-> "none", text |-> ""]

Notice(failed, request, kind, text) ==
    IF failed THEN [failed |-> TRUE, request |-> request, kind |-> kind, text |-> text]
    ELSE NoNotice

\* PatientList.fetchPatients: the caller's readable patients whose doctor
\* field is the signed-in user.
fetchPatients(ok) ==
    /\ DoctorScreens /\ route = "/"
    /\ patients' = IF ok THEN AsList({p \in ListPatients(Caller) : p.doctor = currentUser.username})
                   ELSE patients
    /\ lastOp' = Did("fetchPatients", ok)
    /\ notice' = Notice(~ok, "Patient.list", "message", "Failed to load patients")

FreshId == ListIds[Cardinality(patientTable) + 1]

\* PatientList.handleAddPatient: the store records the caller as owner.
handleAddPatient(ok) ==
    /\ DoctorScreens /\ route = "/"
    /\ LET data == [PatientOf(FreshId, currentUser.username, NoId, NoEmail) EXCEPT !.owner = Caller]
       IN  IF ok /\ session # NoIdent
           THEN patientTable' = patientTable \cup {data} /\ patients' = Append(patients, data)
           ELSE UNCHANGED <<patientTable, patients>>
    /\ lastOp' = Did("handleAddPatient", ok)
    /\ notice' = Notice(~ok, "Patient.create", "alert", "Failed to create patient")

\* PatientDetails.fetchPatientAndExperiments.
fetchPatientAndExperiments(ok) ==
    /\ DoctorScreens /\ route = "patient"
    /\ LET patientData == GetPatient(routeId, Caller)
       IN  IF ~ok THEN pdError' = TRUE /\ UNCHANGED <<patient, pdExperiments>>
           ELSE IF patientData = NoPatient THEN pdError' = TRUE /\ UNCHANGED <<patient, pdExperiments>>
           ELSE /\ pdError' = FALSE
                /\ patient' = patientData
                /\ pdExperiments' = {i \in ListExperiments(Caller) :
                                        experimentTable[i].patientId = routeId}
    /\ lastOp' = Did("fetchPatientAndExperiments", ok)
    /\ notice' = Notice(~ok, "Patient.get", "message", "Failed to load patient data")

EditForms ==
    {[firstName |-> <<"B">>, lastName |-> <<"a">>,
      dateOfBirth |-> [y |-> 2000, m |-> 1, d |-> 1], insuranceNumber |-> "i2"]}

UpdateOutcomes == {"ok", "throws"}

handleEditPatient_withDoctor(editForm, out) ==
    /\ PatientShown
    /\ IF out = "ok"
       THEN /\ patientTable' = UpdatePatient(patient.id, Put(editForm, "doctor", "none"), Caller)
            /\ patient' = patient
       ELSE UNCHANGED <<patientTable, patient>>
    /\ lastOp' = Did("handleEditPatient", out = "ok")
    /\ notice' = Notice(out = "throws", "Patient.update", "alert", "Failed to update patient")

\* PatientDetails.handleEditPatient: Patient.update with the four form fields;
\* the returned record, when there is one, becomes the `patient` state.
handleEditPatient(editForm, out) ==
    /\ PatientShown
    /\ IF out = "ok"
       THEN /\ patientTable' = UpdatePatient(patient.id, editForm, Caller)
            /\ patient' = IF GetPatient(patient.id, Caller) = NoPatient THEN patient
                          ELSE Merge(GetPatient(patient.id, Caller), editForm)
       ELSE UNCHANGED <<patientTable, patient>>
    /\ lastOp' = Did("handleEditPatient", out = "ok")
    /\ notice' = Notice(out = "throws", "Patient.update", "alert", "Failed to update patient")

\* PatientDetails.handleTransferClick: the doctors are listed once.
handleTransferClick(ok) ==
    /\ PatientShown
    /\ doctors' = IF doctors = {} /\ ok THEN ListDoctors(Caller) ELSE doctors
    /\ lastOp' = Did("handleTransferClick", ok)
    /\ notice' = Notice(doctors = {} /\ ~ok, "Doctor.list", "alert", "Failed to load doctors list")

\* The options of the transfer select: the listed doctors but the user.
TransferOptions == {d.username : d \in doctors} \ {currentUser.username}

setTransferDoctorId(d) ==
    /\ PatientShown
    /\ d \in TransferOptions
    /\ transferDoctorId' = d
    /\ lastOp' = Did("setTransferDoctorId", TRUE)
    /\ notice' = NoNotice

NoTransfer == [id |-> "none", from |-> "none", to |-> "none"]

TransferOutcomes == {"ok", "throws", "cancelled"}

(***************************************************************************)
(* PatientDetails.handleTransferPatient: after the confirm dialog the      *)
(* doctor field alone is updated; the result of the update is not looked   *)
(* at, and unless the call throws the user is sent back to the list.       *)
(***************************************************************************)
handleTransferPatient(out) ==
    /\ PatientShown
    /\ transferDoctorId # ""
    /\ pipes = <<>>
    /\ lastOp' = Did("handleTransferPatient", out = "ok")
    /\ notice' = Notice(out = "throws", "Patient.update", "alert", "Failed to transfer patient")
    /\ lastTransfer' = IF out = "ok" /\ CanAccessPatient(patient, Caller)
                       THEN [id |-> patient.id, from |-> GetPatient(patient.id, Caller).doctor,
                             to |-> transferDoctorId]
                       ELSE lastTransfer
    /\ patientTable' = IF out = "ok"
                       THEN UpdatePatient(patient.id, [doctor |-> transferDoctorId], Caller)
                       ELSE patientTable
    /\ IF out = "ok" THEN route' = "/" /\ routeId' = "none" /\ ScreensMount
       ELSE UNCHANGED <<route, pageVars, listVars, uploadVars, detailVars>>

\* A route change inside the application, by a link or by the address bar.
navigate(to, id) ==
    /\ SignedIn
    /\ pipes = <<>>
    /\ \/ to = "/" /\ id = "none"
       \/ to = "patient" /\ DoctorScreens /\ \E p \in patientTable : p.id = id
       \/ to = "experiment" /\ \E i \in 1..Len(experimentTable) : ListExpIds[i] = id
    /\ route' = to
    /\ routeId' = id
    /\ ScreensMount
    /\ lastOp' = Did("navigate", TRUE)
    /\ notice' = NoNotice

\* `${patientData.firstName} ${patientData.lastName}`
NameOf(patientData) == patientData.firstName \o <<SP>> \o patientData.lastName

\* Experiment.get: the index of the record, or 0 (data null).
GetExperiment(id, caller) ==
    IF \E i \in ListExperiments(caller) : ListExpIds[i] = id
    THEN CHOOSE i \in ListExperiments(caller) : ListExpIds[i] = id
    ELSE 0

\* ExperimentDetails.fetchExperiment: Experiment.get of the route's id, then
\* Patient.get of the experiment's patient for the name.
fetchExperiment(ok) ==
    /\ SignedIn /\ route = "experiment"
    /\ LET data == GetExperiment(routeId, Caller)
       IN  IF ~ok \/ data = 0
           THEN edError' = TRUE /\ UNCHANGED <<experiment, patientName>>
           ELSE LET patientData == GetPatient(experimentTable[data].patientId, Caller)
                IN  /\ edError' = FALSE
                    /\ experiment' = data
                    /\ patientName' = IF patientData # NoPatient THEN NameOf(patientData)
                                      ELSE patientName
    /\ lastOp' = Did("fetchExperiment", ok)
    /\ notice' = Notice(~ok, "Experiment.get", "message", "Failed to load experiment data")

(***************************************************************************)
(* ExperimentDetails.handleGenerateReport.  An outcome says whether        *)
(* VITE_REPORT_API_URL is configured, whether fetch resolves, and with     *)
(* which status and body.  The report service is asked with the fields of  *)
(* the loaded experiment; the store is not written.  A set error state     *)
(* replaces the page by the error view, which has no report button.        *)
(***************************************************************************)
ReportBodies == {"success+downloadUrl", "success", "downloadUrl", "error", "unparsable"}

ReportOutcomes == [configured : BOOLEAN, resolves : BOOLEAN, status : {200, 500}, body : ReportBodies]

ReportOk == [configured |-> TRUE, resolves |-> TRUE, status |-> 200, body |-> "success+downloadUrl"]

\* A request as `calls` lists it.
Request(command, target, payload) == [command |-> command, target |-> target, payload |-> payload]

Response(target, status, body) ==
    [command |-> "response", target |-> target, payload |-> <<status, body>>]

\* A handler that does not look at the status of the response.
ReportError_anyStatus(out) ==
    IF ~out.configured THEN "Report API URL not configured"
    ELSE IF ~out.resolves THEN "Failed to fetch"
    ELSE IF out.body = "unparsable" THEN "SyntaxError"
    ELSE IF out.body = "success+downloadUrl" THEN ""
    ELSE "Invalid response from server"

\* The message of the error the try block throws, "" when it throws none.
ReportError(out) ==
    IF ~out.configured THEN "Report API URL not configured"
    ELSE IF ~out.resolves THEN "Failed to fetch"
    ELSE IF out.status # 200
         THEN IF out.body = "error" THEN "errorData.error" ELSE "Server error: 500"
    ELSE IF out.body = "unparsable" THEN "SyntaxError"
    ELSE IF out.body = "success+downloadUrl" THEN ""
    ELSE "Invalid response from server"

handleGenerateReport(out) ==
    /\ SignedIn /\ route = "experiment"
    /\ experiment # 0
    /\ reportState # "error" /\ ~edError
    /\ calls' = IF ~out.configured THEN <<>>
                ELSE <<Request("POST", "VITE_REPORT_API_URL", <<experiment>>)>>
                     \o IF out.resolves
                        THEN <<Response("VITE_REPORT_API_URL", out.status, out.body)>> ELSE <<>>
    /\ reportState' = IF ReportError(out) = "" THEN "preview" ELSE "error"
    /\ lastOp' = Did("handleGenerateReport", ReportError(out) = "")
    /\ notice' = Notice(ReportError(out) # "", "report", "message", ReportError(out))

(***************************************************************************)
(* The narration player of the report preview.  `narration` holds the     *)
(* component state isSpeaking / isPaused / audioUrl, whether audioRef      *)
(* holds an Audio element and whether that element is playing, whether     *)
(* the browser has speechSynthesis and whether it is speaking, and the     *)
(* number of text-to-speech requests in flight.  `copy` tells which of the *)
(* two copies of the component runs: ExperimentDetails.tsx, or the one     *)
(* kept in PatientList.tsx, whose utterance also has an onstart handler.   *)
(***************************************************************************)
MaxRequests == 2

NoNarration ==
    [copy |-> "ExperimentDetails", isSpeaking |-> FALSE, isPaused |-> FALSE, audioRef |-> FALSE,
     audioUrl |-> FALSE, playing |-> FALSE, synth |-> TRUE, speaking |-> FALSE, requests |-> 0]

PreviewOpen == SignedIn /\ route = "experiment" /\ reportState = "preview"

\* fallbackToWebSpeech, called from a closure that holds the report: without
\* speechSynthesis isSpeaking is cleared; otherwise the utterance is spoken,
\* and the copy's onstart handler sets isSpeaking.
fallbackToWebSpeech(n) ==
    IF ~n.synth THEN [n EXCEPT !.isSpeaking = FALSE]
    ELSE [n EXCEPT !.speaking = TRUE,
                   !.isSpeaking = IF n.copy = "PatientList" THEN TRUE ELSE n.isSpeaking]

\* The Play button, shown while isSpeaking is false: with an element and an
\* audioUrl and isPaused set the element is resumed; otherwise a
\* text-to-speech request is sent.
handleTextToSpeech ==
    /\ PreviewOpen /\ ~narration.isSpeaking
    /\ IF narration.audioRef /\ narration.audioUrl /\ narration.isPaused
       THEN narration' = [narration EXCEPT !.playing = TRUE, !.isPaused = FALSE]
       ELSE /\ narration.requests < MaxRequests
            /\ narration' = [narration EXCEPT !.isSpeaking = TRUE, !.isPaused = FALSE,
                                              !.requests = @ + 1]

\* What a text-to-speech request settles with: playable audio, audio whose
\* play() rejects, or a failure (network, status, body).
SpeechOutcomes == {"audio", "playRejected", "failed"}

\* The request of handleTextToSpeech settles; nothing tells the call whether
\* the preview is still open or the narration was stopped.
handleTextToSpeech_response(out) ==
    /\ SignedIn /\ route = "experiment"
    /\ narration.requests > 0
    /\ LET n == [narration EXCEPT !.requests = @ - 1]
           loaded == [n EXCEPT !.audioUrl = TRUE, !.audioRef = TRUE]
       IN  narration' = CASE out = "audio" -> [loaded EXCEPT !.playing = TRUE]
                          [] out = "playRejected" ->
                                fallbackToWebSpeech([loaded EXCEPT !.playing = FALSE])
                          [] out = "failed" -> fallbackToWebSpeech(n)

\* The pause / resume button, shown while isSpeaking is true.
handlePauseResume ==
    /\ PreviewOpen /\ narration.isSpeaking
    /\ narration' = IF narration.audioRef
                    THEN [narration EXCEPT !.playing = narration.isPaused,
                                           !.isPaused = ~narration.isPaused]
                    ELSE narration

\* pause(), currentTime = 0, speechSynthesis.cancel(), both flags cleared.
StopNarration(n) ==
    [n EXCEPT !.playing = FALSE, !.speaking = FALSE, !.isSpeaking = FALSE, !.isPaused = FALSE]

\* The stop button, shown while isSpeaking is true.
handleStop ==
    /\ PreviewOpen /\ narration.isSpeaking
    /\ narration' = StopNarration(narration)

\* The element's onended handler.
audio_onended ==
    /\ narration.playing
    /\ narration' = [narration EXCEPT !.playing = FALSE, !.isSpeaking = FALSE, !.isPaused = FALSE]

\* The element's onerror handler: the flags are cleared, then the fallback.
audio_onerror ==
    /\ narration.playing
    /\ narration' = fallbackToWebSpeech([narration EXCEPT !.playing = FALSE, !.isSpeaking = FALSE,
                                                          !.isPaused = FALSE])

\* The utterance's onend / onerror handlers.
utterance_onend ==
    /\ narration.speaking
    /\ narration' = [narration EXCEPT !.speaking = FALSE, !.isSpeaking = FALSE]

\* The preview modal is closed; the effect on [showPreview] stops the
\* narration.
closePreview ==
    /\ SignedIn /\ route = "experiment"
    /\ reportState = "preview"
    /\ reportState' = "none"
    /\ narration' = StopNarration(narration)
    /\ lastOp' = Did("closePreview", TRUE)
    /\ notice' = NoNotice

\* PatientDashboard: the mount effect lists the experiments, unfiltered.
PatientDashboard(ok) ==
    /\ PatientScreens /\ route = "/"
    /\ dashExperiments' = IF ok THEN ListExperiments(Caller) ELSE dashExperiments
    /\ lastOp' = Did("PatientDashboard", ok)
    /\ notice' = Notice(~ok, "Experiment.list", "none", "")

(***************************************************************************)
(* JSON, as far as predict-experiment needs it.  A text is unparsable or   *)
(* an object of number members, each a key and a number literal; parsing   *)
(* keeps the last value of a repeated key at the place of its first        *)
(* occurrence and reads a literal as a double, so "1.0" is 1 and a literal *)
(* beyond the range of a double is Infinity; serializing writes a finite   *)
(* number in its shortest form and Infinity as null.                       *)
(***************************************************************************)
JsonKeys == {"a", "b"}

NumberLiterals == {"1", "1.0", "2", "1e999", "null"}

JsonValue(lit) ==
    IF lit \in {"1", "1.0"} THEN "1"
    ELSE IF lit = "2" THEN "2"
    ELSE IF lit = "1e999" THEN "Infinity"
    ELSE "null"

JsonLiteral(value) == IF value \in {"1", "2"} THEN value ELSE "null"

InvalidJson == <<<<"", "">>>>

\* {} , {"a":1}, {"a":1.0,"b":2}, {"a":2,"a":1}, {"b":2,"a":1e999}, {"b":null}
Members ==
    {<<>>, <<<<"a", "1">>>>, <<<<"a", "1.0">>, <<"b", "2">>>>, <<<<"a", "2">>, <<"a", "1">>>>,
     <<<<"b", "2">>, <<"a", "1e999">>>>, <<<<"b", "null">>>>}

FeatureTexts == {InvalidJson} \cup Members

\* JSON.parse of an object text: the members of the object, in key order.
JSONparse(text) ==
    LET keys == SelectSeq(<<"a", "b">>, LAMBDA k : \E i \in 1..Len(text) : text[i][1] = k)
        last(k) == CHOOSE i \in 1..Len(text) :
                       text[i][1] = k /\ \A j \in 1..Len(text) : text[j][1] = k => j <= i
    IN  [n \in 1..Len(keys) |-> <<keys[n], JsonValue(text[last(keys[n])][2])>>]

\* JSON.stringify of a parsed object.
JSONstringify(obj) == [n \in 1..Len(obj) |-> <<obj[n][1], JsonLiteral(obj[n][2])>>]

(***************************************************************************)
(* The serverless functions.  `glue` is the one invocation in progress:    *)
(* the function, the await it stands at, its arguments, and once it is     *)
(* "done" what it returned or threw.  `calls` lists the requests the       *)
(* invocation sent to other services.                                      *)
(***************************************************************************)
NoArgs == [features |-> <<>>, email |-> "", named |-> FALSE, pool |-> FALSE]

NoResult == [kind |-> "none", success |-> FALSE, value |-> <<>>, message |-> ""]

\* `cause` is the message of the error another service answered with,
\* `response` what lambda_master answered, and `created` the user name of the
\* account the invocation created.
NoInvocation == [fn |-> "none", pc |-> "idle", args |-> NoArgs, result |-> NoResult,
                 cause |-> "none", response |-> "none", created |-> "", sub |-> ""]

Returns(success, value, message) ==
    [kind |-> "returns", success |-> success, value |-> value, message |-> message]

Throws(message) == [kind |-> "throws", success |-> FALSE, value |-> <<>>, message |-> message]

\* The messages of the errors the other services answer with.
ServiceErrors == {"AccessDeniedException", ""}

(***************************************************************************)
(* predict-experiment: the features text is parsed, lambda_master is       *)
(* invoked once with the serialized object, and its answer is unwrapped.   *)
(***************************************************************************)
predictExperiment(features) ==
    /\ glue.pc \in {"idle", "done"}
    /\ IF features = InvalidJson
       THEN /\ glue' = [NoInvocation EXCEPT !.fn = "predictExperiment", !.pc = "done",
                                            !.args.features = features,
                                            !.result = Throws("SyntaxError")]
            /\ calls' = <<>>
       ELSE /\ glue' = [NoInvocation EXCEPT !.fn = "predictExperiment", !.pc = "awaitInvoke",
                                            !.args.features = features]
            /\ calls' = <<Request("Invoke", "lambda_master", JSONstringify(JSONparse(features)))>>
    /\ UNCHANGED cognitoUsers

(***************************************************************************)
(* What client.send settles with: "sendThrows" it rejects; "functionError" *)
(* the response carries FunctionError; otherwise the payload, which may be *)
(* unparsable, or an object with or without a body; the body of the        *)
(* prediction service is the JSON text of a result or of an error.         *)
(***************************************************************************)
Bodies == {"absent", "", "MLResult", "MLError"}

InvokeOutcomes == {"sendThrows", "functionError", "badPayload"} \cup Bodies

\* JSON.stringify(responsePayload), for a payload whose body is `body`.
StringifyPayload(body) == <<"{statusCode,body}", body>>

predictExperiment_response(out, err) ==
    /\ glue.fn = "predictExperiment" /\ glue.pc = "awaitInvoke"
    /\ glue' = [glue EXCEPT !.pc = "done",
                    !.response = out,
                    !.cause = IF out = "sendThrows" THEN err ELSE "none",
                    !.result = IF out = "sendThrows" THEN Throws(err)
                               ELSE IF out = "functionError"
                                    THEN Throws("Lambda invocation error: Unhandled")
                               ELSE IF out = "badPayload" THEN Throws("SyntaxError")
                               ELSE IF out \in {"MLResult", "MLError"}
                                    THEN Returns(TRUE, <<out>>, "")
                               ELSE Returns(TRUE, StringifyPayload(out), "")]
    /\ UNCHANGED <<calls, cognitoUsers>>

(***************************************************************************)
(* callMLAPI on the answer of the predictExperiment query: a handler that  *)
(* threw arrives as GraphQL errors carrying its message; callMLAPI throws  *)
(* them again and its own catch shows a fixed text.  A returned string is  *)
(* parsed as JSON.                                                         *)
(***************************************************************************)
QueryOutcome(result) ==
    IF result.kind = "throws" THEN "errors"
    ELSE IF result.value = <<"MLResult">> THEN "prediction"
    ELSE "errorBody"

callMLAPI_query(i) ==
    /\ glue.fn = "predictExperiment" /\ glue.pc = "done"
    /\ callMLAPI(i, QueryOutcome(glue.result))
    /\ notice' = Notice(glue.result.kind = "throws", "predictExperiment", "message", uploadError')
    /\ glue' = [glue EXCEPT !.pc = "idle"]
    /\ UNCHANGED <<calls, cognitoUsers>>

(***************************************************************************)
(* The user pool.  An account has a user name (the e-mail address), the    *)
(* sub the pool gave it, and a password that is permanent or not; the pool *)
(* gives every account it creates a sub never used before.                 *)
(***************************************************************************)
MaxAccounts == 2

SubIds == <<"s1", "s2", "s3", "s4", "s5", "s6">>

Account(username, sub, permanent) ==
    [username |-> username, sub |-> sub, permanent |-> permanent]

HasAccount(username) == \E a \in cognitoUsers : a.username = username

\* Subs given so far: accounts that exist and patients linked to deleted ones.
SubsGiven == {a.sub : a \in cognitoUsers} \cup {p.cognitoId : p \in patientTable}

FreshSub == CHOOSE s \in Range(SubIds) :
                /\ s \notin SubsGiven
                /\ \A t \in Range(SubIds) \ SubsGiven : IndexOf(SubIds, t, 1) >= IndexOf(SubIds, s, 1)

\* The pool answers AdminCreateUser: it refuses a user name that is taken.
CreateUserOutcomes(username) ==
    IF HasAccount(username) THEN {"throws"} ELSE {"created", "noSub", "throws"}

CreateUserError(username, err) == IF HasAccount(username) THEN "UsernameExistsException" ELSE err

(***************************************************************************)
(* create-patient-cognito: the arguments and the environment are checked,  *)
(* then AdminCreateUser and AdminSetUserPassword are sent in turn; any     *)
(* error is caught and returned as { success: false, error }.              *)
(***************************************************************************)
CreateArgs == {[NoArgs EXCEPT !.email = e, !.named = n, !.pool = u] :
                  e \in {""} \cup Emails, n \in BOOLEAN, u \in BOOLEAN}

createPatientCognito(args) ==
    /\ glue.pc \in {"idle", "done"}
    /\ LET start == [NoInvocation EXCEPT !.fn = "createPatientCognito", !.args = args]
       IN  IF args.email = "" \/ ~args.named
           THEN /\ glue' = [start EXCEPT !.pc = "done", !.result =
                              Returns(FALSE, <<>>, "Missing required fields: email, firstName, lastName")]
                /\ calls' = <<>>
           ELSE IF ~args.pool
           THEN /\ glue' = [start EXCEPT !.pc = "done", !.result =
                              Returns(FALSE, <<>>, "USER_POOL_ID environment variable not configured")]
                /\ calls' = <<>>
           ELSE /\ glue' = [start EXCEPT !.pc = "awaitCreate"]
                /\ calls' = <<Request("AdminCreateUser", args.email, <<>>)>>
    /\ UNCHANGED cognitoUsers

\* The error field without the fallback text.
ErrorField_verbatim(message) == message

\* error.message || 'Failed to create Cognito user'
ErrorField(message) == IF message = "" THEN "Failed to create Cognito user" ELSE message

\* A handler that sends AdminCreateUser a second time after an error.
createPatientCognito_created_retry(out, err) ==
    /\ glue.fn = "createPatientCognito" /\ glue.pc = "awaitCreate"
    /\ out \in CreateUserOutcomes(glue.args.email)
    /\ IF out = "throws" /\ Len(calls) < 2
       THEN /\ calls' = Append(calls, Request("AdminCreateUser", glue.args.email, <<>>))
            /\ UNCHANGED <<glue, cognitoUsers>>
       ELSE IF out = "throws"
       THEN /\ glue' = [glue EXCEPT !.pc = "done",
                            !.cause = CreateUserError(glue.args.email, err),
                            !.result = Returns(FALSE, <<>>,
                                           ErrorField(CreateUserError(glue.args.email, err)))]
            /\ UNCHANGED <<calls, cognitoUsers>>
       ELSE /\ cognitoUsers' = cognitoUsers \cup {Account(glue.args.email, FreshSub, FALSE)}
            /\ glue' = [glue EXCEPT !.pc = "awaitSetPassword", !.created = glue.args.email,
                                    !.sub = IF out = "noSub" THEN "" ELSE FreshSub]
            /\ calls' = Append(calls, Request("AdminSetUserPassword", glue.args.email, <<>>))

createPatientCognito_created(out, err) ==
    /\ glue.fn = "createPatientCognito" /\ glue.pc = "awaitCreate"
    /\ out \in CreateUserOutcomes(glue.args.email)
    /\ IF out = "throws"
       THEN /\ glue' = [glue EXCEPT !.pc = "done",
                            !.cause = CreateUserError(glue.args.email, err),
                            !.result = Returns(FALSE, <<>>,
                                           ErrorField(CreateUserError(glue.args.email, err)))]
            /\ UNCHANGED <<calls, cognitoUsers>>
       ELSE LET sub == IF out = "noSub" THEN "" ELSE FreshSub
            IN  /\ cognitoUsers' = cognitoUsers \cup {Account(glue.args.email, FreshSub, FALSE)}
                /\ glue' = [glue EXCEPT !.pc = "awaitSetPassword", !.created = glue.args.email,
                                        !.sub = sub]
                /\ calls' = Append(calls, Request("AdminSetUserPassword", glue.args.email, <<>>))

SetPermanent(username) ==
    {IF a.username = username THEN [a EXCEPT !.permanent = TRUE] ELSE a : a \in cognitoUsers}

\* A handler that deletes the account again when the password cannot be set.
createPatientCognito_passwordSet_rollback(ok, err) ==
    /\ glue.fn = "createPatientCognito" /\ glue.pc = "awaitSetPassword"
    /\ IF ok
       THEN /\ cognitoUsers' = SetPermanent(glue.args.email)
            /\ glue' = [glue EXCEPT !.pc = "done",
                            !.result = Returns(TRUE, <<glue.args.email, "password", glue.sub>>, "")]
            /\ UNCHANGED calls
       ELSE /\ glue' = [glue EXCEPT !.pc = "done", !.cause = err,
                            !.result = Returns(FALSE, <<>>, ErrorField(err))]
            /\ cognitoUsers' = {a \in cognitoUsers : a.username # glue.args.email}
            /\ calls' = Append(calls, Request("AdminDeleteUser", glue.args.email, <<>>))

createPatientCognito_passwordSet(ok, err) ==
    /\ glue.fn = "createPatientCognito" /\ glue.pc = "awaitSetPassword"
    /\ IF ok
       THEN /\ cognitoUsers' = SetPermanent(glue.args.email)
            /\ glue' = [glue EXCEPT !.pc = "done",
                            !.result = Returns(TRUE, <<glue.args.email, "password", glue.sub>>, "")]
       ELSE /\ glue' = [glue EXCEPT !.pc = "done", !.cause = err,
                            !.result = Returns(FALSE, <<>>, ErrorField(err))]
            /\ UNCHANGED cognitoUsers
    /\ UNCHANGED calls

(***************************************************************************)
(* seed.ts, one patient of the loop of seedDatabase: createCognitoUser     *)
(* deletes the account of that name (errors ignored), creates it, sets the *)
(* password and returns the sub, or null after any error; without a sub    *)
(* the patient is skipped, with one the Patient record is created.         *)
(***************************************************************************)
seedPatient(email) ==
    /\ glue.pc \in {"idle", "done"}
    /\ glue' = [NoInvocation EXCEPT !.fn = "seedPatient", !.pc = "awaitDelete",
                                    !.args.email = email, !.args.named = TRUE, !.args.pool = TRUE]
    /\ calls' = <<Request("AdminDeleteUser", email, <<>>)>>
    /\ UNCHANGED <<cognitoUsers, patientTable>>

Skipped == Returns(FALSE, <<>>, "Skipping patient creation because Cognito user failed.")

seedPatient_deleted(ok) ==
    /\ glue.fn = "seedPatient" /\ glue.pc = "awaitDelete"
    /\ cognitoUsers' = IF ok THEN {a \in cognitoUsers : a.username # glue.args.email}
                       ELSE cognitoUsers
    /\ glue' = [glue EXCEPT !.pc = "awaitCreate"]
    /\ calls' = Append(calls, Request("AdminCreateUser", glue.args.email, <<>>))
    /\ UNCHANGED patientTable

seedPatient_created(out, err) ==
    /\ glue.fn = "seedPatient" /\ glue.pc = "awaitCreate"
    /\ out \in CreateUserOutcomes(glue.args.email)
    /\ IF out = "throws"
       THEN /\ glue' = [glue EXCEPT !.pc = "done",
                            !.cause = CreateUserError(glue.args.email, err), !.result = Skipped]
            /\ UNCHANGED <<calls, cognitoUsers>>
       ELSE /\ cognitoUsers' = cognitoUsers \cup {Account(glue.args.email, FreshSub, FALSE)}
            /\ glue' = [glue EXCEPT !.pc = "awaitSetPassword", !.created = glue.args.email,
                                    !.sub = IF out = "noSub" THEN "" ELSE FreshSub]
            /\ calls' = Append(calls, Request("AdminSetUserPassword", glue.args.email, <<>>))
    /\ UNCHANGED patientTable

seedPatient_passwordSet(ok, err) ==
    /\ glue.fn = "seedPatient" /\ glue.pc = "awaitSetPassword"
    /\ IF ~ok
       THEN /\ glue' = [glue EXCEPT !.pc = "done", !.cause = err, !.result = Skipped]
            /\ UNCHANGED <<calls, cognitoUsers>>
       ELSE /\ cognitoUsers' = SetPermanent(glue.args.email)
            /\ IF glue.sub = ""
               THEN glue' = [glue EXCEPT !.pc = "done", !.result = Skipped] /\ UNCHANGED calls
               ELSE /\ glue' = [glue EXCEPT !.pc = "awaitPatient"]
                    /\ calls' = Append(calls, Request("Patient.create", glue.sub, <<>>))
    /\ UNCHANGED patientTable

\* Patient.create settles; the signed-in seed doctor `doc` owns the record.
seedPatient_patient(out, doc, err) ==
    /\ glue.fn = "seedPatient" /\ glue.pc = "awaitPatient"
    /\ patientTable' = IF out = "created"
                       THEN patientTable \cup {PatientOf(glue.sub, doc, glue.sub, glue.args.email)}
                       ELSE patientTable
    /\ glue' = [glue EXCEPT !.pc = "done",
                    !.cause = IF out = "throws" THEN err ELSE "none",
                    !.result = IF out = "created" THEN Returns(TRUE, <<glue.args.email, glue.sub>>, "")
                               ELSE IF out = "errors" THEN Returns(FALSE, <<>>, "")
                               ELSE Throws(err)]
    /\ UNCHANGED <<calls, cognitoUsers>>

(***************************************************************************)
(* create-patient-cognito: generatePassword.  `password` holds the string  *)
(* built so far, the statement the function is at, and the values          *)
(* Math.random returns: the n-th value is (seed + n * step) modulo 1000,   *)
(* in thousandths, so every value lies in [0, 1).                          *)
(***************************************************************************)
lowercase ==
    <<"a", "b", "c", "d", "e", "f", "g", "h", "i", "j", "k", "l", "m",
      "n", "o", "p", "q", "r", "s", "t", "u", "v", "w", "x", "y", "z">>

uppercase ==
    <<"A", "B", "C", "D", "E", "F", "G", "H", "I", "J", "K", "L", "M",
      "N", "O", "P", "Q", "R", "S", "T", "U", "V", "W", "X", "Y", "Z">>

numbers == <<"0", "1", "2", "3", "4", "5", "6", "7", "8", "9">>

special == <<"!", "@", "#", "$", "%", "^", "&", "*">>

allChars == lowercase \o uppercase \o numbers \o special

\* The characters `password += undefined` appends.
Undefined == <<"u", "n", "d", "e", "f", "i", "n", "e", "d">>

\* The number of characters the loop appends.
LoopDraws == 8

\* alphabet[Math.round(r * alphabet.length)]: an index past the end reads
\* undefined.
Pick_round(alphabet, r) ==
    LET i == (2 * r * Len(alphabet) + 1000) \div 2000
    IN  IF i < Len(alphabet) THEN <<alphabet[i + 1]>> ELSE Undefined

\* alphabet[Math.floor(r * alphabet.length)], r in thousandths.
Pick(alphabet, r) ==
    LET i == (r * Len(alphabet)) \div 1000
    IN  IF i < Len(alphabet) THEN <<alphabet[i + 1]>> ELSE Undefined

\* The next value of Math.random().
MathRandom == (password.seed + password.drawn * password.step) % 1000

NoPassword == [pc |-> "idle", chars |-> <<>>, i |-> 0, seed |-> 0, step |-> 0, drawn |-> 0]

GeneratorIdle == password = NoPassword

\* let password = '' and the four += of lines 41-44, one per step.
generatePassword_first ==
    /\ password.pc \in {"uppercase", "lowercase", "numbers", "special"}
    /\ LET alphabet == CASE password.pc = "uppercase" -> uppercase
                         [] password.pc = "lowercase" -> lowercase
                         [] password.pc = "numbers" -> numbers
                         [] OTHER -> special
           next == CASE password.pc = "uppercase" -> "lowercase"
                     [] password.pc = "lowercase" -> "numbers"
                     [] password.pc = "numbers" -> "special"
                     [] OTHER -> "loop"
       IN  password' = [password EXCEPT !.chars = @ \o Pick(alphabet, MathRandom),
                                        !.drawn = @ + 1,
                                        !.pc = next]

\* One turn of the for loop.
generatePassword_loop ==
    /\ password.pc = "loop"
    /\ password.i < LoopDraws
    /\ password' = [password EXCEPT !.chars = @ \o Pick(allChars, MathRandom),
                                    !.drawn = @ + 1,
                                    !.i = @ + 1]

Reverse(s) == [k \in 1..Len(s) |-> s[Len(s) + 1 - k]]

Rotate(s, n) == [k \in 1..Len(s) |-> s[((k - 1 + n) % Len(s)) + 1]]

\* Orders split('').sort(() => Math.random() - 0.5) can leave the characters
\* in: the comparator answers at random, the sort permutes.  The rotations
\* and the reversed rotations stand for the permutations.
ShuffleOrders(s) ==
    IF s = <<>> THEN {s}
    ELSE {Rotate(s, n) : n \in 0..(Len(s) - 1)} \cup {Reverse(Rotate(s, n)) : n \in 0..(Len(s) - 1)}

\* The return statement.
generatePassword_return ==
    /\ password.pc = "loop"
    /\ password.i >= LoopDraws
    /\ \E shuffled \in ShuffleOrders(password.chars) :
           password' = [password EXCEPT !.chars = shuffled, !.pc = "returned"]

ServicesIdle ==
    /\ notice = NoNotice
    /\ glue = NoInvocation
    /\ calls = <<>>
    /\ cognitoUsers = {}
    /\ fetches = <<>>
    /\ narration = NoNarration

\* States of the parts a specification does not exercise.
NoFile == revision = "spectral" /\ csvRows = <<>> /\ csvText = <<>>

UploadIdle ==
    /\ uploading = FALSE
    /\ uploadStatus = ""
    /\ uploadError = ""
    /\ pipes = <<>>
    /\ lastParse = NoParse
    /\ lastUpload = "none"

NoPage == routeId = "none" /\ patient = NoPatient

NoFilters ==
    /\ searchQuery = <<>>
    /\ genderFilter = "all"
    /\ minAge = <<>>
    /\ maxAge = <<>>
    /\ sortBy = "name-asc"

ListIdle == patients = <<>> /\ NoFilters

FixedClock == today = [y |-> 2002, m |-> 3, d |-> 15] /\ tz = "utc"

EmptyStore == doctorTable = {} /\ patientTable = {}

ScreensIdle ==
    /\ pdExperiments = {}
    /\ pdError = FALSE
    /\ doctors = {}
    /\ transferDoctorId = ""
    /\ experiment = 0
    /\ reportState = "none"
    /\ dashExperiments = {}
    /\ patientName = <<>>
    /\ edError = FALSE

NoHistory == lastOp = Did("none", TRUE) /\ lastTransfer = NoTransfer

(***************************************************************************)
(* Specification of role resolution: the records served to the session     *)
(* are drawn once; every call of checkUser / login resolves against them.  *)
(***************************************************************************)
(* The sets of failing queries an environment may choose for one call; a   *)
(* call that never reaches determineRole issues no query.                  *)
FailChoices(resolves) == IF resolves THEN SUBSET QueryNames ELSE {{}}

NoAuth == NotResolved("none")

InitRole ==
    /\ qDoctor \in SmallSubsets(DoctorRecs)
    /\ qPatient \in SmallSubsets(PatientRecs)
    /\ session \in {NoIdent} \cup Identities
    /\ currentUser = NoUser
    /\ isLoading = TRUE
    /\ loginLoading = FALSE
    /\ lastAuth = NoAuth
    /\ NoFile /\ UploadIdle /\ NoPage /\ ListIdle /\ FixedClock /\ GeneratorIdle
    /\ experimentTable = <<>>
    /\ EmptyStore /\ route = "/" /\ ScreensIdle /\ NoHistory /\ ServicesIdle

roleFrame ==
    <<qDoctor, qPatient, fileVars, uploadVars, pageVars, experimentTable, listVars, clockVars, password, glueVars, fetches, narration,
      storeVars, route, detailVars, historyVars>>

RoleCheckUser ==
    /\ \E out \in CheckOutcomes : \E fail \in FailChoices(out = "ok" /\ session # NoIdent) :
           checkUser(out, fail, qDoctor, qPatient)
    /\ UNCHANGED roleFrame

RoleLogin ==
    /\ \E ident \in Identities, out \in LoginOutcomes : \E fail \in FailChoices(out = "signedIn") :
           handleSubmit(ident, out, fail, qDoctor, qPatient)
    /\ UNCHANGED roleFrame

RoleLogout ==
    /\ \E ok \in BOOLEAN : logout(ok)
    /\ UNCHANGED roleFrame

RoleReload ==
    /\ Reload
    /\ UNCHANGED roleFrame

NextRole == RoleCheckUser \/ RoleLogin \/ RoleLogout \/ RoleReload

SpecRole == InitRole /\ [][NextRole]_vars

\* checkUser is started by the mount effect of AuthProvider and each of its
\* awaits settles: the session check is not postponed forever.
FairRole == SpecRole /\ WF_vars(RoleCheckUser)

(***************************************************************************)
(* Specification of CSV upload: a doctor has opened a patient's page and   *)
(* drops one file, any number of times, on the upload area of the deployed *)
(* revision.                                                               *)
(***************************************************************************)
DoctorIdent == [username |-> "u1", email |-> "e1"]

InitCsv ==
    /\ revision \in {"scalar", "spectral"}
    /\ csvRows \in RowsOf(revision)
    /\ \E framing \in Framings : csvText = FileText(csvRows, framing)
    /\ UploadIdle
    /\ routeId = "p1"
    /\ patient = PatientOf("p1", "u1", "u2", "e2")
    /\ experimentTable = <<>>
    /\ qDoctor = {} /\ qPatient = {}
    /\ session = DoctorIdent
    /\ currentUser = [username |-> "u1", role |-> "doctor"]
    /\ isLoading = FALSE
    /\ loginLoading = FALSE
    /\ lastAuth = NoAuth
    /\ ListIdle /\ FixedClock /\ GeneratorIdle
    /\ EmptyStore /\ route = "patient" /\ ScreensIdle /\ NoHistory /\ ServicesIdle

csvFrame ==
    <<authVars, fileVars, pageVars, listVars, clockVars, password, glueVars, fetches, narration, storeVars, route, detailVars,
      historyVars>>

CsvDrop ==
    /\ Len(pipes) + Len(experimentTable) < MaxExperiments
    /\ handleFile(routeId, patient.cognitoId)
    /\ UNCHANGED <<csvFrame, experimentTable>>

CsvText ==
    /\ \E i \in 1..Len(pipes), readOk \in BOOLEAN : handleFile_text(i, csvText, readOk)
    /\ UNCHANGED <<csvFrame, experimentTable>>

CsvPredict ==
    /\ \E i \in 1..Len(pipes), out \in MLOutcomes : callMLAPI(i, out)
    /\ UNCHANGED <<csvFrame, experimentTable>>

CsvCreate ==
    /\ \E i \in 1..Len(pipes), out \in CreateOutcomes : handleFile_create(i, out)
    /\ UNCHANGED csvFrame

NextCsv == CsvDrop \/ CsvText \/ CsvPredict \/ CsvCreate

SpecCsv == InitCsv /\ [][NextCsv]_vars

(***************************************************************************)
(* Specification of byte order marks: the file of SpecCsv is saved again   *)
(* with one more U+FEFF in front of it, before or after it is dropped on   *)
(* the page.  The rows are the wide rows and the rows of one column, so    *)
(* the first header is a recognized name in most files.                    *)
(***************************************************************************)
MaxMarks == 2

RECURSIVE LeadingMarks(_)
LeadingMarks(s) == IF s = <<>> \/ Head(s) # BOM THEN 0 ELSE 1 + LeadingMarks(Tail(s))

OneColumnRows(rev) == {<<(<<h>>), (<<v>>)>> : h \in HeaderCells(rev), v \in NarrowValues}

MarkRows(rev) ==
    OneColumnRows(rev) \cup (IF rev = "scalar" THEN WideScalarRows ELSE WideSpectralRows)

InitBom ==
    /\ revision \in {"scalar", "spectral"}
    /\ csvRows \in MarkRows(revision)
    /\ \E framing \in Framings : csvText = FileText(csvRows, framing)
    /\ UploadIdle
    /\ routeId = "p1"
    /\ patient = PatientOf("p1", "u1", "u2", "e2")
    /\ experimentTable = <<>>
    /\ qDoctor = {} /\ qPatient = {}
    /\ session = DoctorIdent
    /\ currentUser = [username |-> "u1", role |-> "doctor"]
    /\ isLoading = FALSE
    /\ loginLoading = FALSE
    /\ lastAuth = NoAuth
    /\ ListIdle /\ FixedClock /\ GeneratorIdle
    /\ EmptyStore /\ route = "patient" /\ ScreensIdle /\ NoHistory /\ ServicesIdle

\* The file on disk gets one more byte order mark in front.
BomMark ==
    /\ LeadingMarks(csvText) < MaxMarks
    /\ csvText' = <<BOM>> \o csvText
    /\ UNCHANGED <<revision, csvRows, uploadVars, experimentTable,
                   authVars, pageVars, listVars, clockVars, password, glueVars, fetches, narration, storeVars,
                   route, detailVars, historyVars>>

NextBom == CsvDrop \/ CsvText \/ BomMark

SpecBom == InitBom /\ [][NextBom]_vars

(***************************************************************************)
(* Specification of the patient list's age filter: a doctor's list has     *)
(* been loaded; the doctor types minimum and maximum ages and clears the   *)
(* filters.  The day and the time zone of the browser are drawn once.      *)
(***************************************************************************)
BirthDates ==
    {NoDate, [y |-> 2000, m |-> 3, d |-> 15], [y |-> 2000, m |-> 3, d |-> 1],
     [y |-> 2000, m |-> 1, d |-> 1]}

Todays ==
    {[y |-> 2002, m |-> 3, d |-> 14], [y |-> 2002, m |-> 3, d |-> 15],
     [y |-> 2002, m |-> 2, d |-> 28], [y |-> 2001, m |-> 12, d |-> 31]}

\* The texts a number input can hold: empty, whole numbers, a decimal.
AgeInputs == {<<>>, <<"1">>, <<"2">>, <<"1", ".", "5">>}

ListsOf(n) ==
    UNION {{[i \in 1..k |-> [PatientOf(ListIds[i], "u1", NoId, NoEmail)
                                EXCEPT !.dateOfBirth = dob[i]]] :
                dob \in [1..k -> BirthDates]} : k \in 0..n}

InitAge ==
    /\ patients \in ListsOf(MaxPatients)
    /\ NoFilters
    /\ today \in Todays
    /\ tz \in TimeZones
    /\ GeneratorIdle
    /\ NoFile /\ UploadIdle /\ NoPage
    /\ experimentTable = <<>>
    /\ qDoctor = {} /\ qPatient = {}
    /\ session = DoctorIdent
    /\ currentUser = [username |-> "u1", role |-> "doctor"]
    /\ isLoading = FALSE
    /\ loginLoading = FALSE
    /\ lastAuth = NoAuth
    /\ EmptyStore /\ route = "/" /\ ScreensIdle /\ NoHistory /\ ServicesIdle

ageFrame ==
    <<authVars, fileVars, uploadVars, pageVars, experimentTable, clockVars, password, glueVars, fetches, narration, storeVars, route,
      detailVars, historyVars>>

AgeSetMin == (\E v \in AgeInputs : setMinAge(v)) /\ UNCHANGED ageFrame

AgeSetMax == (\E v \in AgeInputs : setMaxAge(v)) /\ UNCHANGED ageFrame

AgeClear == clearFilters /\ UNCHANGED ageFrame

NextAge == AgeSetMin \/ AgeSetMax \/ AgeClear

SpecAge == InitAge /\ [][NextAge]_vars

(***************************************************************************)
(* Specification of the patient list's search, gender filter and sort: a   *)
(* doctor's list has been loaded; the doctor types queries, selects a      *)
(* gender and a sort option, and clears the filters.  The patients differ  *)
(* in name, case of the name, gender and date of birth; one has a gender   *)
(* the filter does not offer and one no date of birth.                     *)
(***************************************************************************)
PatientKinds ==
    <<[first |-> <<"A", "b">>, last |-> <<"b", "a">>, gender |-> "Female",
       dob |-> [y |-> 2000, m |-> 3, d |-> 15]],
      [first |-> <<"b">>, last |-> <<"a", "B">>, gender |-> "Male",
       dob |-> [y |-> 1990, m |-> 5, d |-> 5]],
      [first |-> <<"a">>, last |-> <<"a">>, gender |-> "Female", dob |-> NoDate],
      [first |-> <<"B", "a">>, last |-> <<"b">>, gender |-> "",
       dob |-> [y |-> 2001, m |-> 6, d |-> 1]],
      [first |-> <<"a", "b">>, last |-> <<"B", "a">>, gender |-> "Male",
       dob |-> [y |-> 2000, m |-> 3, d |-> 15]]>>

KindPatient(id, k) ==
    [PatientOf(id, "u1", NoId, NoEmail) EXCEPT !.firstName = PatientKinds[k].first,
                                               !.lastName = PatientKinds[k].last,
                                               !.gender = PatientKinds[k].gender,
                                               !.dateOfBirth = PatientKinds[k].dob]

\* The lists of up to n patients of different kinds, ids in list order.
KindLists(n) ==
    UNION {{[i \in 1..k |-> KindPatient(ListIds[i], kinds[i])] :
                kinds \in {f \in [1..k -> DOMAIN PatientKinds] :
                              \A i, j \in 1..k : i # j => f[i] # f[j]}} : k \in 0..n}

Queries == {<<>>, <<SP>>, <<"a">>, <<"A", "B">>, <<"b", SP, "B">>, <<"a", SP>>, <<"p1">>}

GenderOptions == {"all", "Male", "Female"}

InitList ==
    /\ patients \in KindLists(MaxPatients)
    /\ NoFilters
    /\ FixedClock /\ GeneratorIdle
    /\ NoFile /\ UploadIdle /\ NoPage
    /\ experimentTable = <<>>
    /\ qDoctor = {} /\ qPatient = {}
    /\ session = DoctorIdent
    /\ currentUser = [username |-> "u1", role |-> "doctor"]
    /\ isLoading = FALSE
    /\ loginLoading = FALSE
    /\ lastAuth = NoAuth
    /\ EmptyStore /\ route = "/" /\ ScreensIdle /\ NoHistory /\ ServicesIdle

ListSearch == (\E v \in Queries : setSearchQuery(v)) /\ UNCHANGED ageFrame

ListGender == (\E v \in GenderOptions : setGenderFilter(v)) /\ UNCHANGED ageFrame

ListSort == (\E v \in SortOptions : setSortBy(v)) /\ UNCHANGED ageFrame

NextList == ListSearch \/ ListGender \/ ListSort \/ AgeClear

SpecList == InitList /\ [][NextList]_vars

(***************************************************************************)
(* Specification of the portal over the data store: two accounts share one *)
(* browser; the store starts from what account provisioning and the seed   *)
(* script leave in it.  The spectral revision of CSVUpload is deployed and *)
(* the file dropped is a well-formed one.  A user leaves a page only when  *)
(* no upload is in flight.                                                 *)
(***************************************************************************)
IdentOf(u) == [username |-> u, email |-> IF u = "u1" THEN "e1" ELSE "e2"]

\* Doctor records: none, or one per doctor account, created by the account
\* itself or by the first account on its behalf.
SecondDoctor == {{[username |-> "u2", email |-> "e2", owner |-> o]} : o \in Usernames}

DoctorTables ==
    {{}} \cup {{[username |-> "u1", email |-> "e1", owner |-> "u1"]} \cup rest :
                rest \in {{}} \cup SecondDoctor}

\* Patient records: none, or a patient of the first doctor with or without
\* the second account as its patient account.
PatientTables ==
    {{}, {PatientOf("p1", "u1", NoId, NoEmail)}, {PatientOf("p1", "u1", "u2", "e2")}}

WellFormedRows == <<Names(SPECTRAL_FEATURES, MinFeatures), ValuesOf(MinFeatures, Num12, Num12)>>

\* The role lookups that fail during one login: none, or the patient query.
DataFailChoices(resolves) ==
    IF resolves THEN {{}, {"patientByCognitoId"}} ELSE {{}}

InitData ==
    /\ doctorTable \in DoctorTables
    /\ patientTable \in PatientTables
    /\ experimentTable = <<>>
    /\ revision = "spectral"
    /\ csvRows = WellFormedRows
    /\ csvText = FileText(WellFormedRows, "plain")
    /\ UploadIdle /\ NoPage /\ ListIdle /\ FixedClock /\ GeneratorIdle /\ ScreensIdle /\ NoHistory /\ ServicesIdle
    /\ route = "/"
    /\ qDoctor = {} /\ qPatient = {}
    /\ session = NoIdent
    /\ currentUser = NoUser
    /\ isLoading = FALSE
    /\ loginLoading = FALSE
    /\ lastAuth = NoAuth

dataFixed == <<qDoctor, qPatient, isLoading, fileVars, clockVars, password, glueVars, fetches, narration, doctorTable>>

DataLogin ==
    /\ \E u \in Usernames, out \in {"signedIn", "signInThrows"} :
       \E fail \in DataFailChoices(out = "signedIn") :
           /\ handleSubmit(IdentOf(u), out, fail, ListDoctors(u), ListPatients(u))
           /\ notice' = IF out = "signInThrows"
                        THEN Notice(TRUE, "signIn", "message", "Invalid username or password")
                        ELSE Notice(fail # {}, "role lookup", "none", "")
    /\ IF currentUser' # NoUser
       THEN /\ ScreensMount
            /\ route' = IF currentUser'.role = "patient" /\ route = "patient" THEN "/" ELSE route
            /\ routeId' = IF currentUser'.role = "patient" /\ route = "patient" THEN "none" ELSE routeId
       ELSE UNCHANGED <<route, pageVars, listVars, uploadVars, detailVars>>
    /\ lastOp' = Did("login", currentUser' # NoUser)
    /\ UNCHANGED <<dataFixed, patientTable, experimentTable, lastTransfer>>

DataLogout ==
    /\ pipes = <<>>
    /\ \E ok \in BOOLEAN : logout(ok)
    /\ IF currentUser' = NoUser THEN ScreensMount
       ELSE UNCHANGED <<pageVars, listVars, uploadVars, detailVars>>
    /\ lastOp' = Did("logout", currentUser' = NoUser)
    /\ notice' = Notice(currentUser' # NoUser, "signOut", "none", "")
    /\ UNCHANGED <<dataFixed, route, routeId, patientTable, experimentTable, lastTransfer>>

DataFetchPatients ==
    /\ \E ok \in BOOLEAN : fetchPatients(ok)
    /\ UNCHANGED <<authVars, fileVars, uploadVars, pageVars, experimentTable, filterVars,
                   clockVars, password, glueVars, fetches, narration, storeVars, route, detailVars, lastTransfer>>

DataAddPatient ==
    /\ Cardinality(patientTable) < MaxPatients
    /\ \E ok \in BOOLEAN : handleAddPatient(ok)
    /\ UNCHANGED <<authVars, fileVars, uploadVars, pageVars, experimentTable, filterVars,
                   clockVars, password, glueVars, fetches, narration, doctorTable, route, detailVars, lastTransfer>>

DataNavigate ==
    /\ \E to \in {"/", "patient", "experiment"}, id \in {"none"} \cup PatientIds \cup Range(ListExpIds) :
           navigate(to, id)
    /\ UNCHANGED <<authVars, fileVars, experimentTable, clockVars, password, glueVars, fetches, narration, storeVars, lastTransfer>>

DataFetchPatient ==
    /\ \E ok \in BOOLEAN : fetchPatientAndExperiments(ok)
    /\ UNCHANGED <<authVars, fileVars, uploadVars, routeId, experimentTable, listVars, clockVars, password, glueVars, fetches, narration,
                   storeVars, route, doctors, transferDoctorId, experiment, reportState,
                   dashExperiments, patientName, edError, lastTransfer>>

DataEditPatient ==
    /\ \E editForm \in EditForms, out \in UpdateOutcomes : handleEditPatient(editForm, out)
    /\ UNCHANGED <<authVars, fileVars, uploadVars, routeId, experimentTable, listVars, clockVars, password, glueVars, fetches, narration,
                   doctorTable, route, detailVars, lastTransfer>>

DataTransferClick ==
    /\ \E ok \in BOOLEAN : handleTransferClick(ok)
    /\ UNCHANGED <<authVars, fileVars, uploadVars, pageVars, experimentTable, listVars, clockVars, password, glueVars, fetches, narration,
                   storeVars, route, pdExperiments, transferDoctorId, experiment, reportState,
                   dashExperiments, pdError, patientName, edError, lastTransfer>>

DataSetTransferDoctor ==
    /\ \E d \in Usernames : setTransferDoctorId(d)
    /\ UNCHANGED <<authVars, fileVars, uploadVars, pageVars, experimentTable, listVars, clockVars, password, glueVars, fetches, narration,
                   storeVars, route, pdExperiments, doctors, experiment, reportState,
                   dashExperiments, pdError, patientName, edError, lastTransfer>>

DataTransfer ==
    /\ \E out \in TransferOutcomes : handleTransferPatient(out)
    /\ UNCHANGED <<authVars, fileVars, experimentTable, clockVars, password, glueVars, fetches, narration, doctorTable>>

dataUploadFrame ==
    <<authVars, fileVars, pageVars, listVars, clockVars, password, glueVars, fetches, narration, storeVars, route, detailVars, lastTransfer>>

DataDrop ==
    /\ PatientShown
    /\ Len(pipes) + Len(experimentTable) < MaxExperiments
    /\ handleFile(routeId, patient.cognitoId)
    /\ lastOp' = Did("handleFile", TRUE)
    /\ notice' = NoNotice
    /\ UNCHANGED <<dataUploadFrame, experimentTable>>

DataText ==
    /\ \E i \in 1..Len(pipes), readOk \in BOOLEAN : handleFile_text(i, csvText, readOk)
    /\ lastOp' = Did("handleFile", TRUE)
    /\ notice' = NoNotice
    /\ UNCHANGED <<dataUploadFrame, experimentTable>>

DataPredict ==
    /\ \E i \in 1..Len(pipes) : callMLAPI(i, "prediction")
    /\ lastOp' = Did("handleFile", TRUE)
    /\ notice' = NoNotice
    /\ UNCHANGED <<dataUploadFrame, experimentTable>>

DataCreate ==
    /\ \E i \in 1..Len(pipes), out \in CreateOutcomes :
           /\ handleFile_create(i, out)
           /\ lastOp' = Did("handleFile", out = "created")
           /\ notice' = IF out = "throws"
                        THEN Notice(TRUE, "Experiment.create", "message", uploadError')
                        ELSE Notice(out = "errors", "Experiment.create", "none", "")
    /\ UNCHANGED dataUploadFrame

DataFetchExperiment ==
    /\ \E ok \in BOOLEAN : fetchExperiment(ok)
    /\ UNCHANGED <<authVars, fileVars, uploadVars, pageVars, experimentTable, listVars, clockVars, password, glueVars, fetches, narration,
                   storeVars, route, pdExperiments, doctors, transferDoctorId, reportState,
                   dashExperiments, pdError, lastTransfer>>

reportFrame ==
    <<authVars, fileVars, uploadVars, pageVars, experimentTable, listVars, clockVars, password, glue,
      cognitoUsers, fetches, storeVars, route, pdExperiments, doctors, transferDoctorId,
      experiment, dashExperiments, pdError, patientName, edError, lastTransfer>>

\* The report service answers with a report.
DataGenerateReport ==
    /\ \E out \in {ReportOk} : handleGenerateReport(out)
    /\ UNCHANGED <<reportFrame, narration>>

ReportGenerate ==
    /\ \E out \in ReportOutcomes : handleGenerateReport(out)
    /\ UNCHANGED <<reportFrame, narration>>

ReportClosePreview ==
    /\ closePreview
    /\ UNCHANGED <<reportFrame, calls>>

DataDashboard ==
    /\ \E ok \in BOOLEAN : PatientDashboard(ok)
    /\ UNCHANGED <<authVars, fileVars, uploadVars, pageVars, experimentTable, listVars, clockVars, password, glueVars, fetches, narration,
                   storeVars, route, pdExperiments, doctors, transferDoctorId, experiment,
                   reportState, pdError, patientName, edError, lastTransfer>>

\* The patient side of the portal: no file is dropped, so the store holds
\* no experiment and the experiment pages are never opened.
NextData ==
    \/ DataLogin \/ DataLogout \/ DataNavigate
    \/ DataFetchPatients \/ DataAddPatient
    \/ DataFetchPatient \/ DataEditPatient
    \/ DataTransferClick \/ DataSetTransferDoctor \/ DataTransfer

SpecData == InitData /\ [][NextData]_vars

(***************************************************************************)
(* Specification of the experiment life cycle: the first account is a      *)
(* doctor who may read the second account's Doctor record and has one      *)
(* patient, p1, whose patient account is the second account.  The          *)
(* prediction service answers every upload.                                *)
(***************************************************************************)
ExpDoctors ==
    {[username |-> "u1", email |-> "e1", owner |-> "u1"],
     [username |-> "u2", email |-> "e2", owner |-> "u1"]}

InitPortal(P) ==
    /\ doctorTable = ExpDoctors
    /\ patientTable = P
    /\ experimentTable = <<>>
    /\ revision = "spectral"
    /\ csvRows = WellFormedRows
    /\ csvText = FileText(WellFormedRows, "plain")
    /\ UploadIdle /\ NoPage /\ ListIdle /\ FixedClock /\ GeneratorIdle /\ ScreensIdle /\ NoHistory /\ ServicesIdle
    /\ route = "/"
    /\ qDoctor = {} /\ qPatient = {}
    /\ session = NoIdent
    /\ currentUser = NoUser
    /\ isLoading = FALSE
    /\ loginLoading = FALSE
    /\ lastAuth = NoAuth

InitExp == InitPortal({PatientOf("p1", "u1", "u2", "e2")})

NextExp ==
    \/ DataLogin \/ DataLogout \/ DataNavigate
    \/ DataFetchPatient \/ DataEditPatient
    \/ DataTransferClick \/ DataSetTransferDoctor \/ DataTransfer
    \/ DataDrop \/ DataText \/ DataPredict \/ DataCreate
    \/ DataFetchExperiment \/ DataGenerateReport
    \/ DataDashboard

SpecExp == InitExp /\ [][NextExp]_vars

(***************************************************************************)
(* Specification of report generation: the doctor uploads experiments of   *)
(* p1, opens their pages and asks for reports; the report service may be   *)
(* unconfigured, unreachable, or answer with any status and body.          *)
(***************************************************************************)
NextReport ==
    \/ DataLogin \/ DataNavigate \/ DataFetchPatient
    \/ DataDrop \/ DataText \/ DataPredict \/ DataCreate
    \/ DataFetchExperiment \/ ReportGenerate \/ ReportClosePreview

SpecReport == InitExp /\ [][NextReport]_vars

(***************************************************************************)
(* Specification of the patient dashboard: besides p1 the store holds p2,  *)
(* a patient the second account added while it was given the doctor        *)
(* screens, and p3, another patient of the first account with no patient   *)
(* account.                                                                *)
(***************************************************************************)
OwnPatient == [PatientOf("p2", "u2", NoId, NoEmail) EXCEPT !.owner = "u2"]

DashPatients == {PatientOf("p1", "u1", "u2", "e2"), OwnPatient, PatientOf("p3", "u1", NoId, NoEmail)}

InitDash == InitPortal(DashPatients)

NextDash ==
    \/ DataLogin \/ DataLogout \/ DataNavigate
    \/ DataFetchPatient
    \/ DataDrop \/ DataText \/ DataPredict \/ DataCreate
    \/ DataDashboard

SpecDash == InitDash /\ [][NextDash]_vars

(***************************************************************************)
(* Specification of the serverless functions: the doctor of the experiment *)
(* life cycle uploads files, each upload asks predict-experiment through   *)
(* the predictExperiment query, and meanwhile create-patient-cognito is    *)
(* invoked and the seed script seeds patients.  One invocation runs at a   *)
(* time, and the answer of a query is taken before the next one starts.    *)
(* The user pool functions and the portal share no state, so a behaviour   *)
(* has either the one or the other: the pool is worked on while nobody has *)
(* signed in to the portal, and the portal is used while the pool is as it *)
(* was created.                                                            *)
(***************************************************************************)
glueFrame ==
    <<authVars, fileVars, uploadVars, pageVars, experimentTable, listVars, clockVars, password, storeVars,
      route, detailVars, historyVars, fetches, narration>>

cognitoFrame ==
    <<authVars, fileVars, uploadVars, pageVars, experimentTable, listVars, clockVars, password, doctorTable,
      route, detailVars, historyVars, fetches, narration>>

QueryAnswered == glue.fn # "predictExperiment" \/ glue.pc = "idle"

GlueFree == glue.pc = "idle" \/ (glue.pc = "done" /\ glue.fn # "predictExperiment")

GluePredict ==
    /\ GlueFree
    /\ \E i \in 1..Len(pipes) : pipes[i].pc = "predicting"
    /\ \E features \in FeatureTexts : predictExperiment(features)
    /\ UNCHANGED glueFrame

GluePredictResponse ==
    /\ \E out \in InvokeOutcomes, err \in ServiceErrors : predictExperiment_response(out, err)
    /\ UNCHANGED glueFrame

GlueCallMLAPI ==
    /\ \E i \in 1..Len(pipes) : callMLAPI_query(i)
    /\ lastOp' = Did("handleFile", glue.result.kind = "returns")
    /\ UNCHANGED <<authVars, fileVars, pageVars, experimentTable, listVars, clockVars, password, storeVars,
                   route, detailVars, lastTransfer, fetches, narration>>

AccountsLeft == Cardinality({p \in patientTable : p.cognitoId \in Range(SubIds)}) < MaxAccounts

PoolFresh == glue.fn = "none" /\ cognitoUsers = {}

GlueLogin == PoolFresh /\ DataLogin

GlueCreatePatient ==
    /\ GlueFree /\ session = NoIdent
    /\ \E args \in CreateArgs : createPatientCognito(args)
    /\ UNCHANGED glueFrame

GlueCreated ==
    /\ \E out \in {"created", "noSub", "throws"}, err \in ServiceErrors :
           createPatientCognito_created(out, err)
    /\ UNCHANGED glueFrame

GluePasswordSet ==
    /\ \E ok \in BOOLEAN, err \in ServiceErrors : createPatientCognito_passwordSet(ok, err)
    /\ UNCHANGED glueFrame

GlueSeed ==
    /\ GlueFree /\ AccountsLeft /\ session = NoIdent
    /\ \E email \in Emails : seedPatient(email)
    /\ UNCHANGED cognitoFrame

GlueSeedDeleted ==
    /\ \E ok \in BOOLEAN : seedPatient_deleted(ok)
    /\ UNCHANGED cognitoFrame

GlueSeedCreated ==
    /\ \E out \in {"created", "noSub", "throws"}, err \in ServiceErrors : seedPatient_created(out, err)
    /\ UNCHANGED cognitoFrame

GlueSeedPasswordSet ==
    /\ \E ok \in BOOLEAN, err \in ServiceErrors : seedPatient_passwordSet(ok, err)
    /\ UNCHANGED cognitoFrame

GlueSeedPatient ==
    /\ \E out \in CreateOutcomes, err \in ServiceErrors : seedPatient_patient(out, "u1", err)
    /\ UNCHANGED cognitoFrame

InitGlue == InitPortal({PatientOf("p1", "u1", "u2", "e2")})

NextGlue ==
    \/ GlueLogin \/ DataNavigate \/ DataFetchPatient
    \/ DataDrop \/ DataText \/ DataCreate
    \/ GluePredict \/ GluePredictResponse \/ GlueCallMLAPI
    \/ GlueCreatePatient \/ GlueCreated \/ GluePasswordSet
    \/ GlueSeed \/ GlueSeedDeleted \/ GlueSeedCreated \/ GlueSeedPasswordSet \/ GlueSeedPatient

SpecGlue == InitGlue /\ [][NextGlue]_vars

(***************************************************************************)
(* Specification of the detail pages under a changing route id.  Both      *)
(* routes render the same element for every :id, so a change of the id     *)
(* keeps the page mounted with its state and runs the effect on [id]       *)
(* again.  Each run of the effect is a call of fetchPatientAndExperiments  *)
(* or fetchExperiment that closes over the id it was started with; a call  *)
(* in flight is a record of `fetches`, at its first or its second await.   *)
(* Nothing cancels a call, and the responses arrive in any order.          *)
(***************************************************************************)
MaxFetches == 2

Fetch(page, id, pc, patientId) == [page |-> page, id |-> id, pc |-> pc, patientId |-> patientId]

\* The effect on [id] runs: setLoading(true), setError('') and the first
\* request of the fetch.
useEffect_id(id) ==
    /\ SignedIn /\ route \in {"patient", "experiment"}
    /\ fetches' = Append(fetches, Fetch(route, id, "get", "none"))
    /\ IF route = "patient" THEN pdError' = FALSE /\ UNCHANGED edError
       ELSE edError' = FALSE /\ UNCHANGED pdError

\* The address changes to another id of the same route.
setRouteId(id) ==
    /\ id # routeId
    /\ routeId' = id
    /\ useEffect_id(id)

\* Patient.get of fetchPatientAndExperiments settles.
fetchPatientAndExperiments_patient(i, ok) ==
    /\ i \in 1..Len(fetches)
    /\ fetches[i].page = "patient" /\ fetches[i].pc = "get"
    /\ LET patientData == GetPatient(fetches[i].id, Caller)
       IN  IF ~ok \/ patientData = NoPatient
           THEN /\ pdError' = TRUE
                /\ fetches' = RemoveAt(fetches, i)
                /\ lastOp' = Did("fetchPatientAndExperiments", FALSE)
                /\ notice' = Notice(TRUE, "Patient.get", "message",
                                    IF ok THEN "Patient not found"
                                    ELSE "Failed to load patient data")
                /\ UNCHANGED patient
           ELSE /\ patient' = patientData
                /\ fetches' = SetAt(fetches, i, [fetches[i] EXCEPT !.pc = "list"])
                /\ UNCHANGED <<pdError, lastOp, notice>>
    /\ UNCHANGED pdExperiments

\* Experiment.list of fetchPatientAndExperiments settles.
fetchPatientAndExperiments_experiments(i, ok) ==
    /\ i \in 1..Len(fetches)
    /\ fetches[i].page = "patient" /\ fetches[i].pc = "list"
    /\ IF ok
       THEN /\ pdExperiments' = {k \in ListExperiments(Caller) :
                                    experimentTable[k].patientId = fetches[i].id}
            /\ UNCHANGED pdError
       ELSE pdError' = TRUE /\ UNCHANGED pdExperiments
    /\ fetches' = RemoveAt(fetches, i)
    /\ lastOp' = Did("fetchPatientAndExperiments", ok)
    /\ notice' = Notice(~ok, "Experiment.list", "message", "Failed to load patient data")
    /\ UNCHANGED patient

\* Experiment.get of fetchExperiment settles.
fetchExperiment_experiment(i, ok) ==
    /\ i \in 1..Len(fetches)
    /\ fetches[i].page = "experiment" /\ fetches[i].pc = "get"
    /\ LET data == GetExperiment(fetches[i].id, Caller)
       IN  IF ~ok \/ data = 0
           THEN /\ edError' = TRUE
                /\ fetches' = RemoveAt(fetches, i)
                /\ lastOp' = Did("fetchExperiment", FALSE)
                /\ notice' = Notice(TRUE, "Experiment.get", "message",
                                    IF ok THEN "Experiment not found"
                                    ELSE "Failed to load experiment data")
                /\ UNCHANGED experiment
           ELSE /\ experiment' = data
                /\ fetches' = SetAt(fetches, i,
                                [fetches[i] EXCEPT !.pc = "name",
                                                   !.patientId = experimentTable[data].patientId])
                /\ UNCHANGED <<edError, lastOp, notice>>
    /\ UNCHANGED patientName

\* Patient.get of fetchExperiment settles.
fetchExperiment_patient(i, ok) ==
    /\ i \in 1..Len(fetches)
    /\ fetches[i].page = "experiment" /\ fetches[i].pc = "name"
    /\ LET patientData == GetPatient(fetches[i].patientId, Caller)
       IN  IF ok
           THEN /\ patientName' = IF patientData # NoPatient THEN NameOf(patientData)
                                  ELSE patientName
                /\ UNCHANGED edError
           ELSE edError' = TRUE /\ UNCHANGED patientName
    /\ fetches' = RemoveAt(fetches, i)
    /\ lastOp' = Did("fetchExperiment", ok)
    /\ notice' = Notice(~ok, "Patient.get", "message", "Failed to load experiment data")
    /\ UNCHANGED experiment

\* Two patients of the signed-in doctor with different names; p3 is no
\* record.  Three experiments: x1 and x3 of p1, x2 of p2.
RacePatients ==
    {PatientOf("p1", "u1", NoId, NoEmail),
     [PatientOf("p2", "u1", NoId, NoEmail) EXCEPT !.firstName = <<"B">>]}

ExperimentOf(patientId) ==
    [owner |-> "u1", patientId |-> patientId, patientCognitoId |-> NoId, payload |-> <<>>,
     consensusPrediction |-> "null"]

RaceExperiments == <<ExperimentOf("p1"), ExperimentOf("p2"), ExperimentOf("p1")>>

RouteIds(page) == IF page = "patient" THEN PatientIds ELSE {ListExpIds[k] : k \in 1..3}

\* The doctor has opened a detail page; its effect has started the fetch.
InitRace ==
    /\ doctorTable = ExpDoctors
    /\ patientTable = RacePatients
    /\ experimentTable = RaceExperiments
    /\ revision = "spectral"
    /\ csvRows = WellFormedRows
    /\ csvText = FileText(WellFormedRows, "plain")
    /\ UploadIdle /\ ListIdle /\ FixedClock /\ GeneratorIdle /\ ScreensIdle /\ NoHistory
    /\ notice = NoNotice /\ glue = NoInvocation /\ calls = <<>> /\ cognitoUsers = {}
    /\ narration = NoNarration
    /\ route \in {"patient", "experiment"}
    /\ routeId \in RouteIds(route)
    /\ patient = NoPatient
    /\ fetches = <<Fetch(route, routeId, "get", "none")>>
    /\ qDoctor = {} /\ qPatient = {}
    /\ session = DoctorIdent
    /\ currentUser = [username |-> "u1", role |-> "doctor"]
    /\ isLoading = FALSE
    /\ loginLoading = FALSE
    /\ lastAuth = NoAuth

raceFrame ==
    <<authVars, fileVars, uploadVars, experimentTable, listVars, clockVars, password, glueVars, narration, storeVars,
      route, doctors, transferDoctorId, reportState, dashExperiments>>

RaceRoute ==
    /\ Len(fetches) < MaxFetches
    /\ \E id \in RouteIds(route) : setRouteId(id)
    /\ UNCHANGED <<raceFrame, patient, pdExperiments, experiment, patientName, historyVars>>

RacePatient ==
    /\ \E i \in 1..Len(fetches), ok \in BOOLEAN : fetchPatientAndExperiments_patient(i, ok)
    /\ UNCHANGED <<raceFrame, routeId, experiment, patientName, edError, lastTransfer>>

RaceList ==
    /\ \E i \in 1..Len(fetches), ok \in BOOLEAN : fetchPatientAndExperiments_experiments(i, ok)
    /\ UNCHANGED <<raceFrame, routeId, experiment, patientName, edError, lastTransfer>>

RaceExperiment ==
    /\ \E i \in 1..Len(fetches), ok \in BOOLEAN : fetchExperiment_experiment(i, ok)
    /\ UNCHANGED <<raceFrame, routeId, patient, pdExperiments, pdError, lastTransfer>>

RaceName ==
    /\ \E i \in 1..Len(fetches), ok \in BOOLEAN : fetchExperiment_patient(i, ok)
    /\ UNCHANGED <<raceFrame, routeId, patient, pdExperiments, pdError, lastTransfer>>

NextRace == RaceRoute \/ RacePatient \/ RaceList \/ RaceExperiment \/ RaceName

SpecRace == InitRace /\ [][NextRace]_vars

(***************************************************************************)
(* Specification of the narration player: a doctor has an experiment's     *)
(* page open, generates the report, plays, pauses, resumes and stops the   *)
(* narration and closes the preview; the text-to-speech requests settle    *)
(* and the audio element and the speech synthesis fire their events at     *)
(* any time.                                                               *)
(***************************************************************************)
InitNarr ==
    /\ doctorTable = ExpDoctors
    /\ patientTable = RacePatients
    /\ experimentTable = RaceExperiments
    /\ revision = "spectral"
    /\ csvRows = WellFormedRows
    /\ csvText = FileText(WellFormedRows, "plain")
    /\ UploadIdle /\ ListIdle /\ FixedClock /\ GeneratorIdle /\ NoHistory
    /\ notice = NoNotice /\ glue = NoInvocation /\ calls = <<>> /\ cognitoUsers = {}
    /\ fetches = <<>>
    /\ \E copy \in {"ExperimentDetails", "PatientList"}, synth \in BOOLEAN :
           narration = [NoNarration EXCEPT !.copy = copy, !.synth = synth]
    /\ route = "experiment"
    /\ routeId = ListExpIds[1]
    /\ patient = NoPatient
    /\ pdExperiments = {} /\ pdError = FALSE /\ doctors = {} /\ transferDoctorId = ""
    /\ dashExperiments = {}
    /\ experiment = 1
    /\ patientName = NameOf(GetPatient(RaceExperiments[1].patientId, "u1"))
    /\ edError = FALSE
    /\ reportState = "none"
    /\ qDoctor = {} /\ qPatient = {}
    /\ session = DoctorIdent
    /\ currentUser = [username |-> "u1", role |-> "doctor"]
    /\ isLoading = FALSE
    /\ loginLoading = FALSE
    /\ lastAuth = NoAuth

narrFrame == <<reportFrame, reportState, calls, lastOp, notice>>

NarrGenerate ==
    /\ reportState = "none"
    /\ handleGenerateReport(ReportOk)
    /\ UNCHANGED <<reportFrame, narration>>

NarrPlay == handleTextToSpeech /\ UNCHANGED narrFrame

NarrResponse ==
    /\ \E out \in SpeechOutcomes : handleTextToSpeech_response(out)
    /\ UNCHANGED narrFrame

NarrPauseResume == handlePauseResume /\ UNCHANGED narrFrame

NarrStop == handleStop /\ UNCHANGED narrFrame

NarrEnded == audio_onended /\ UNCHANGED narrFrame

NarrError == audio_onerror /\ UNCHANGED narrFrame

NarrUtteranceEnd == utterance_onend /\ UNCHANGED narrFrame

NextNarr ==
    \/ NarrGenerate \/ ReportClosePreview
    \/ NarrPlay \/ NarrResponse \/ NarrPauseResume \/ NarrStop
    \/ NarrEnded \/ NarrError \/ NarrUtteranceEnd

SpecNarr == InitNarr /\ [][NextNarr]_vars

(***************************************************************************)
(* Specification of generatePassword: the function runs once over each of  *)
(* the random runs.                                                        *)
(***************************************************************************)
\* First values and increments of the random runs, in thousandths.
RandomSeeds == {0, 137, 500, 862, 999}

RandomSteps == {0, 83, 291, 617, 999}

InitPwd ==
    /\ \E seed \in RandomSeeds, step \in RandomSteps :
           password = [NoPassword EXCEPT !.pc = "uppercase", !.seed = seed, !.step = step]
    /\ NoFile /\ UploadIdle /\ NoPage /\ ListIdle /\ FixedClock
    /\ experimentTable = <<>>
    /\ qDoctor = {} /\ qPatient = {}
    /\ session = NoIdent
    /\ currentUser = NoUser
    /\ isLoading = FALSE
    /\ loginLoading = FALSE
    /\ lastAuth = NoAuth
    /\ EmptyStore /\ route = "/" /\ ScreensIdle /\ NoHistory /\ ServicesIdle

pwdFrame ==
    <<authVars, fileVars, uploadVars, pageVars, experimentTable, listVars, clockVars,
      storeVars, route, detailVars, historyVars, glueVars, fetches, narration>>

PwdFirst == generatePassword_first /\ UNCHANGED pwdFrame

PwdLoop == generatePassword_loop /\ UNCHANGED pwdFrame

PwdReturn == generatePassword_return /\ UNCHANGED pwdFrame

NextPwd == PwdFirst \/ PwdLoop \/ PwdReturn

SpecPwd == InitPwd /\ [][NextPwd]_vars

(***************************************************************************)
(* Role resolution claims.  A session identity matches a record by the     *)
(* fields the spec names, independently of the order of the queries.       *)
(***************************************************************************)
MatchesDoctor(ident) ==
    \E d \in qDoctor :
        d.username = ident.username \/ (ident.email # NoEmail /\ d.email = ident.email)

MatchesPatient(ident) ==
    \E p \in qPatient :
        p.cognitoId = ident.username \/ (ident.email # NoEmail /\ p.email = ident.email)

RoleResolved == lastAuth.op \in {"login", "checkUser"} /\ lastAuth.ident # NoIdent

C3_NoMatchResolvesUnknown ==
    (RoleResolved /\ ~MatchesDoctor(lastAuth.ident) /\ ~MatchesPatient(lastAuth.ident))
        => /\ lastAuth.role = "unknown"
           /\ currentUser = [username |-> lastAuth.ident.username, role |-> "unknown"]

C3_Witness ==
    /\ RoleResolved
    /\ lastAuth.op = "login"
    /\ qDoctor # {}
    /\ qPatient # {}
    /\ ~MatchesDoctor(lastAuth.ident)
    /\ ~MatchesPatient(lastAuth.ident)
    /\ lastAuth.doctorLookup = "none"
    /\ lastAuth.patientLookup = "none"
    /\ currentUser = [username |-> lastAuth.ident.username, role |-> "unknown"]

(***************************************************************************)
(* CSV parsing claims.  What a file should yield is read off the cells it  *)
(* was written from, not off its text.                                     *)
(***************************************************************************)
HeaderRow == csvRows[1]

ValueRow == csvRows[2]

Unpadded(cell) == SelectSeq(cell, LAMBDA c : ~IsSpace(c))

\* The columns whose header is the name k.
Columns(k) == {i \in 1..Len(HeaderRow) : Unpadded(HeaderRow[i]) = <<k>>}

\* The columns of k whose value reads as a number.
Usable(k) == {i \in Columns(k) : i <= Len(ValueRow) /\ ~isNaN(parseFloat(ValueRow[i]))}

Last(S) == CHOOSE i \in S : \A j \in S : j <= i

BlankRow(row) == Len(row) = 1 /\ Unpadded(row[1]) = <<>>

ScalarParsed == revision = "scalar" /\ lastParse.called

C6_CountMismatchRejected ==
    (csvRows # <<>> /\ Len(HeaderRow) # Len(ValueRow))
        => /\ lastParse.called => (~lastParse.result.ok /\ lastParse.result.error # "")
           /\ lastUpload = "rejected" => uploadError # ""
           /\ experimentTable = <<>>

\* The scalar revision alone keeps C6: a file with mismatched counts has been
\* rejected by it.
C6_ScalarRejects ==
    /\ ScalarParsed
    /\ Len(HeaderRow) = 9
    /\ Len(ValueRow) = 10
    /\ lastParse.result = Rejected("Header count does not match value count")
    /\ uploadError = "Header count does not match value count"

(***************************************************************************)
(* Age filter claim.  The age of a patient is counted on the calendar: the *)
(* whole years between the date of birth as entered and the current local  *)
(* date.  The entered bounds are the numbers the inputs show.              *)
(***************************************************************************)
WholeYears(dob, day) ==
    (day.y - dob.y) - (IF CompareKeys(<<day.m, day.d>>, <<dob.m, dob.d>>) < 0 THEN 1 ELSE 0)

\* age >= the number written in v / age <= the number written in v.
AtLeast(age, v) ==
    LET n == parseFloat(v) IN age > n.whole \/ (age = n.whole /\ n.frac = <<>>)

AtMost(age, v) == age <= parseFloat(v).whole

InAgeRange(p) ==
    /\ (minAge # <<>> \/ maxAge # <<>>) => p.dateOfBirth # NoDate
    /\ minAge # <<>> => AtLeast(WholeYears(p.dateOfBirth, today), minAge)
    /\ maxAge # <<>> => AtMost(WholeYears(p.dateOfBirth, today), maxAge)

\* C7: for every patient list and every minimum and/or maximum age entered,
\* filteredPatients contains exactly those patients whose age in whole years
\* completed as of the current date satisfies minAge <= age <= maxAge for the
\* bounds that are set; patients without a date of birth are excluded as soon
\* as either bound is set.  Refuted west of Greenwich, where calculateAge
\* takes the day before the date of birth as the birthday.
C7_AgeFilterExact ==
    (searchQuery = <<>> /\ genderFilter = "all")
        => Range(filteredPatients) = {patients[i] : i \in {j \in DOMAIN patients : InAgeRange(patients[j])}}

(***************************************************************************)
(* Store claims.  A patient is known by its id; the list a doctor sees is  *)
(* the one fetchPatients has just put into `patients`.                     *)
(***************************************************************************)
PatientById(T, id) == CHOOSE p \in T : p.id = id

ShownIds == {patients[i].id : i \in DOMAIN patients}

\* The last transfer moved the patient from one doctor to another and the
\* patient is still with the new doctor.
Transferred ==
    /\ lastTransfer # NoTransfer
    /\ lastTransfer.from # lastTransfer.to
    /\ \E p \in patientTable : p.id = lastTransfer.id /\ p.doctor = lastTransfer.to

\* C4: after handleTransferPatient has reassigned patient p from doctor A to
\* doctor B, the list doctor A obtains from fetchPatients no longer contains
\* p and the list doctor B obtains from fetchPatients contains p.  Refuted:
\* the record stays owned by A, so the store does not serve it to B.
C4_TransferMovesPatient ==
    (Transferred /\ DoctorScreens /\ route = "/" /\ lastOp = "fetchPatients")
        => /\ currentUser.username = lastTransfer.from => lastTransfer.id \notin ShownIds
           /\ currentUser.username = lastTransfer.to => lastTransfer.id \in ShownIds

\* The half of C4 that holds: the former doctor's list has lost the patient.
C4_FormerDoctorLosesPatient ==
    (Transferred /\ DoctorScreens /\ route = "/" /\ lastOp = "fetchPatients"
        /\ currentUser.username = lastTransfer.from)
        => lastTransfer.id \notin ShownIds

SameBut(p, q, fields) == \A f \in (DOMAIN p) \ fields : q[f] = p[f]

EditFields == {"firstName", "lastName", "dateOfBirth", "insuranceNumber"}

\* C10: no step removes a patient; a patient's doctor field changes only in
\* a handleTransferPatient step, which leaves every other field of every
\* patient unchanged; a handleEditPatient step changes nothing but
\* firstName, lastName, dateOfBirth and insuranceNumber.
C10_PatientMutationFrame ==
    [][\A p \in patientTable :
          /\ \E q \in patientTable' : q.id = p.id
          /\ LET q == PatientById(patientTable', p.id)
             IN  /\ q.doctor # p.doctor
                      => /\ lastOp' = "handleTransferPatient"
                         /\ lastTransfer' = [id |-> p.id, from |-> p.doctor, to |-> q.doctor]
                 /\ lastOp' = "handleTransferPatient" => SameBut(p, q, {"doctor"})
                 /\ lastOp' = "handleEditPatient" => SameBut(p, q, EditFields)
                 /\ lastOp' \notin {"handleTransferPatient", "handleEditPatient"} => q = p]_vars

\* A transferred patient has just been edited.
C10_Witness ==
    /\ lastOp = "handleEditPatient"
    /\ lastTransfer # NoTransfer
    /\ \E p \in patientTable :
          /\ p.id = lastTransfer.id
          /\ p.doctor = lastTransfer.to /\ p.doctor # lastTransfer.from
          /\ p.firstName = <<"B">> /\ p.insuranceNumber = "i2"
          /\ p.cognitoId = "u2"

\* C9: a step never removes an Experiment record nor changes a field of
\* one; the table only grows at its end.
C9_ExperimentsImmutable ==
    [][/\ Len(experimentTable') >= Len(experimentTable)
       /\ \A i \in 1..Len(experimentTable) : experimentTable'[i] = experimentTable[i]]_vars

\* Two experiments are stored, the patient has been edited and transferred,
\* and a report has been generated from a loaded experiment.
C9_Witness ==
    /\ Len(experimentTable) >= 2
    /\ lastTransfer # NoTransfer
    /\ \E p \in patientTable : p.firstName = <<"B">>
    /\ experiment # 0
    /\ reportState = "preview"

\* The experiments of the store follow the patient account of their patient.
UploadsCarryCognitoId ==
    \A i \in 1..Len(experimentTable) :
        \A p \in patientTable :
            (p.id = experimentTable[i].patientId /\ p.cognitoId # NoId)
                => experimentTable[i].patientCognitoId = p.cognitoId

FailedPredictionAnswered ==
    /\ glue.fn = "predictExperiment" /\ glue.pc = "done" /\ glue.result.kind = "throws"
    /\ glue'.pc = "idle"

\* A Cognito request of create-patient-cognito failed with the error `cause`.
CognitoRequestFailed ==
    glue.fn = "createPatientCognito" /\ glue.pc = "done" /\ glue.cause # "none"

\* predict-experiment threw after its request to lambda_master was rejected.
InvokeRejected == glue.fn = "predictExperiment" /\ glue.cause # "none"

\* C11 as stated in the specification: the message thrown by predict-experiment
\* is shown unchanged on the CSV upload screen after the failed prediction
\* call, and the error field of create-patient-cognito is the message of the
\* underlying Cognito error, unchanged.
C11_ErrorsVerbatim ==
    /\ [][FailedPredictionAnswered => uploadError' = glue.result.message]_vars
    /\ [](CognitoRequestFailed => glue.result.message = glue.cause)

\* C11, amended: predict-experiment rethrows the error of its request
\* unchanged, but the CSV upload screen shows the fixed text 'Failed to get ML
\* predictions' whatever the handler's message was; the error field of
\* create-patient-cognito is the message of the underlying error when that
\* message is not empty, and 'Failed to create Cognito user' when it is.
C11_ErrorsSurfaced ==
    /\ [][FailedPredictionAnswered =>
              /\ uploadError' = "Failed to get ML predictions"
              /\ notice' = [failed |-> TRUE, request |-> "predictExperiment", kind |-> "message",
                           text |-> uploadError']]_vars
    /\ [](InvokeRejected => glue.result.kind = "throws" /\ glue.result.message = glue.cause)
    /\ [](CognitoRequestFailed =>
              /\ glue.result.kind = "returns" /\ ~glue.result.success
              /\ glue.cause # "" => glue.result.message = glue.cause
              /\ glue.cause = "" => glue.result.message = "Failed to create Cognito user")

\* A failed prediction call has been answered: the handler threw a message
\* of its own and the upload screen shows the fixed text.
C11_Witness ==
    /\ glue.fn = "predictExperiment" /\ glue.pc = "idle"
    /\ glue.result.kind = "throws" /\ glue.result.message = "Lambda invocation error: Unhandled"
    /\ notice.failed /\ notice.text = "Failed to get ML predictions"
    /\ uploadError = "Failed to get ML predictions"

(***************************************************************************)
(* Claims about failures of the screens' requests.                         *)
(***************************************************************************)
\* The requests of the screens: patient list fetch, patient and experiment
\* fetch, patient create / edit / transfer, dashboard experiment list.
ScreenRequests ==
    {"Patient.list", "Patient.create", "Patient.get", "Patient.update", "Doctor.list",
     "Experiment.get", "Experiment.list"}

\* C12: a failed backend request of a screen is caught where it was made and
\* the user is shown an error message or an alert about it; none is dropped
\* silently.
C12_FailuresSurfaced ==
    notice.failed /\ notice.request \in ScreenRequests => notice.kind \in {"message", "alert"}

\* The requests of the invocation in progress that carry the command `c`.
Sent(c) == {i \in 1..Len(calls) : calls[i].command = c}

\* C13: one invocation of predict-experiment sends at most one Invoke to
\* lambda_master, also after a failure; one invocation of
\* create-patient-cognito sends at most one AdminCreateUser and at most one
\* AdminSetUserPassword, the latter only after the former succeeded, and no
\* request when email, firstName, lastName or USER_POOL_ID is missing.
C13_NoRetryAndOrder ==
    /\ glue.fn = "predictExperiment" =>
           /\ Len(calls) <= 1
           /\ \A i \in 1..Len(calls) :
                  calls[i].command = "Invoke" /\ calls[i].target = "lambda_master"
           /\ glue.result.kind = "throws" /\ glue.args.features = InvalidJson => calls = <<>>
    /\ glue.fn = "createPatientCognito" =>
           /\ Cardinality(Sent("AdminCreateUser")) <= 1
           /\ Cardinality(Sent("AdminSetUserPassword")) <= 1
           /\ \A i \in 1..Len(calls) :
                  /\ calls[i].command \in {"AdminCreateUser", "AdminSetUserPassword"}
                  /\ calls[i].target = glue.args.email
                  /\ calls[i].command = "AdminSetUserPassword" =>
                         /\ \E j \in 1..(i - 1) : calls[j].command = "AdminCreateUser"
                         /\ glue.created = glue.args.email
           /\ glue.args.email = "" \/ ~glue.args.named \/ ~glue.args.pool => calls = <<>>

\* create-patient-cognito failed at AdminSetUserPassword after it had sent
\* both requests once, in order.
C13_Witness ==
    /\ glue.fn = "createPatientCognito" /\ glue.pc = "done" /\ ~glue.result.success
    /\ Len(calls) = 2
    /\ calls[1].command = "AdminCreateUser" /\ calls[2].command = "AdminSetUserPassword"

\* An invocation ended without success after its AdminCreateUser succeeded:
\* the password could not be set, the response named no sub, or the Patient
\* record was not written.
PartialFailure ==
    /\ glue.fn \in {"createPatientCognito", "seedPatient"}
    /\ glue.pc = "done" /\ glue.created # "" /\ ~glue.result.success

\* C14: when AdminCreateUser succeeded and the following step failed, nothing
\* is undone or reconciled: the handler returns success = false, the created
\* account still exists, no AdminDeleteUser follows the creation, and no
\* Patient record linked to the account has been written.
C14_NoPartialFailureRecovery ==
    PartialFailure =>
        /\ glue.fn = "createPatientCognito" => glue.result.kind = "returns"
        /\ \E a \in cognitoUsers :
               /\ a.username = glue.created
               /\ \A p \in patientTable : p.cognitoId # a.sub
        /\ \A i \in Sent("AdminDeleteUser") : \A j \in Sent("AdminCreateUser") : i < j

\* The seed script created the account and set its password, and the write
\* of the Patient record then failed.
C14_Witness ==
    /\ PartialFailure /\ glue.fn = "seedPatient"
    /\ Sent("Patient.create") # {}
    /\ \E a \in cognitoUsers : a.username = glue.created /\ a.permanent

\* C15: for features that are valid JSON the payload sent to lambda_master
\* is the parsed features object, no field added, dropped or changed; a
\* response with a body is answered with that body unchanged, and a response
\* without one with the JSON text of the whole response payload.
C15_PassThrough ==
    glue.fn = "predictExperiment" =>
        /\ glue.args.features # InvalidJson =>
               /\ Len(calls) = 1
               /\ JSONparse(calls[1].payload) = JSONparse(glue.args.features)
        /\ glue.response \in Bodies \ {"absent"} => glue.result = Returns(TRUE, <<glue.response>>, "")
        /\ glue.response = "absent" => glue.result = Returns(TRUE, StringifyPayload("absent"), "")

(***************************************************************************)
(* Claims about report generation.                                         *)
(***************************************************************************)
\* The response the last report request received: status 200 with a body
\* that has success true and a downloadUrl.
ReportSucceeded ==
    /\ Len(calls) = 2
    /\ calls[1].command = "POST"
    /\ calls[2] = Response("VITE_REPORT_API_URL", 200, "success+downloadUrl")

\* C16: the report preview is open only after an HTTP success response whose
\* body has success true and a downloadUrl; after every other outcome no
\* preview is open and an error message is set; and when the URL of the
\* service is not configured no HTTP request is sent.
C16_ReportOutcome ==
    /\ reportState = "preview" => ReportSucceeded
    /\ lastOp = "handleGenerateReport" => ReportSucceeded /\ reportState = "preview"
    /\ notice.failed /\ notice.request = "report" =>
           /\ ~ReportSucceeded
           /\ reportState = "error"
           /\ notice.kind = "message" /\ notice.text # ""
           /\ notice.text = "Report API URL not configured" => calls = <<>>

\* The service answered status 500 with a body that has success and a
\* downloadUrl: the error is shown and no preview.
C16_Witness ==
    /\ notice.failed /\ notice.request = "report" /\ reportState = "error"
    /\ Len(calls) = 2 /\ calls[2] = Response("VITE_REPORT_API_URL", 500, "success+downloadUrl")

(***************************************************************************)
(* Patient list claims.  A text q occurs in a text s when some stretch of  *)
(* s is q, symbol by symbol.                                               *)
(***************************************************************************)
OccursIn(q, s) ==
    \E i \in 0..(Len(s) - Len(q)) : \A k \in 1..Len(q) : s[i + k] = q[k]

NameMatch(p) ==
    LET q == toLowerCase(searchQuery)
    IN  \/ OccursIn(q, toLowerCase(p.firstName))
        \/ OccursIn(q, toLowerCase(p.lastName))
        \/ OccursIn(q, toLowerCase(p.firstName \o <<SP>> \o p.lastName))

Blank(q) == \A i \in 1..Len(q) : q[i] = SP

GenderMatch(p) == genderFilter # "all" => p.gender = genderFilter

Passing(match(_)) == {patients[i] : i \in {j \in DOMAIN patients : match(patients[j])}}

KeptByName(p) == (~Blank(searchQuery) => NameMatch(p)) /\ GenderMatch(p)

KeptByNameOrId(p) ==
    /\ ~Blank(searchQuery) => NameMatch(p) \/ OccursIn(toLowerCase(searchQuery), <<p.id>>)
    /\ GenderMatch(p)

\* C17 as stated in the specification: for a non-blank query a patient is in
\* filteredPatients if and only if the lower-cased query occurs in the
\* lower-cased first name, last name or 'first last' name, and the gender
\* filter keeps exactly the patients of the selected gender.
C17_SearchByName == Range(filteredPatients) = Passing(KeptByName)

\* C17, amended: the query is also looked for in the patient's id, so a
\* patient is kept if and only if the lower-cased query occurs in the
\* lower-cased first name, last name, 'first last' name or id; the gender
\* filter keeps exactly the patients of the selected gender.
C17_SearchByNameOrId == Range(filteredPatients) = Passing(KeptByNameOrId)

\* A query in capitals has kept one patient of the list and dropped another,
\* under a gender filter.
C17_Witness ==
    /\ searchQuery = <<"A", "B">> /\ genderFilter = "Female"
    /\ Len(filteredPatients) = 1 /\ Len(patients) > 1
    /\ \E i \in DOMAIN patients : patients[i].gender = "Female" /\ ~NameMatch(patients[i])

\* The patients of every kind, as the comparator sees them.
AllKinds == {KindPatient("p1", k) : k \in DOMAIN PatientKinds}

\* The comparator of a sort option is a total preorder: of two patients one
\* does not come after the other, swapping the arguments swaps the sign, and
\* not-after is transitive.
TotalPreorder(option) ==
    \A a, b \in AllKinds :
        /\ comparator(option, a, b) <= 0 \/ comparator(option, b, a) <= 0
        /\ comparator(option, a, b) < 0 <=> comparator(option, b, a) > 0
        /\ \A c \in AllKinds :
               comparator(option, a, b) <= 0 /\ comparator(option, b, c) <= 0
                   => comparator(option, a, c) <= 0

\* C18: the comparator of each of the six sort options (every one of them
\* is selected in some state) is a total preorder
\* on patients, those without a date of birth included; filteredPatients is
\* a permutation of the patients that pass the filters, in an order
\* consistent with the selected key; and sorting leaves the fetched list as
\* it is, in content and in order.
C18_SortIsPermutation ==
    /\ [](sortBy \in SortOptions /\ TotalPreorder(sortBy))
    /\ [](/\ Range(filteredPatients) = Passing(KeptByNameOrId)
          /\ Len(filteredPatients) = Cardinality(Passing(KeptByNameOrId))
          /\ \A i, j \in DOMAIN filteredPatients :
                 i < j => comparator(sortBy, filteredPatients[i], filteredPatients[j]) <= 0)
    /\ [][patients' = patients]_vars

\* Sorted by age, descending, the list shows its patients in another order
\* than they were fetched in, one of them without a date of birth.
C18_Witness ==
    /\ sortBy = "age-desc"
    /\ Len(filteredPatients) = Len(patients) /\ Len(patients) > 1
    /\ filteredPatients # patients
    /\ \E i \in DOMAIN patients : patients[i].dateOfBirth = NoDate

(***************************************************************************)
(* Byte order marks (SpecBom).                                             *)
(***************************************************************************)
\* C19: parsing a CSV text with a byte order mark in front of it gives the
\* result of parsing the text itself, the same record or the same error,
\* whether or not the text already begins with marks or white space; and
\* the result the upload obtained from the file is that result, however
\* many marks the file has had since.
C19_MarkIgnored ==
    LET marked == parseCSVOf(revision, <<BOM>> \o csvText, routeId)
    IN  /\ marked = parseCSVOf(revision, csvText, routeId)
        /\ lastParse.called => lastParse.result = marked

\* A file that begins with a mark and whose first header is a recognized
\* name has been parsed to a record that holds the first column's field.
C19_Witness ==
    /\ csvText = FileText(csvRows, "bomCrlf")
    /\ Len(csvRows[1]) = 1
    /\ csvRows[1][1] \in {<<"peakCounts">>, <<"ch0_total_power">>}
    /\ csvRows[2][1] # <<>>
    /\ lastParse.called
    /\ lastParse.result.ok

(***************************************************************************)
(* Detail pages under a changing route id (SpecRace).                      *)
(***************************************************************************)
\* What a detail page shows when it shows a record and not the error view.
ShownForRoute ==
    IF route = "patient"
    THEN ~pdError =>
            /\ patient.id = routeId
            /\ pdExperiments = {k \in ListExperiments(Caller) :
                                   experimentTable[k].patientId = routeId}
    ELSE ~edError =>
            /\ experiment # 0
            /\ ListExpIds[experiment] = routeId
            /\ patientName = NameOf(GetPatient(experimentTable[experiment].patientId, Caller))

\* C20: once every fetch of a detail page has completed, the record the
\* page shows (the patient and its experiments, or the experiment and the
\* patient's name) is the one of the current route id, whatever the order
\* in which the responses arrived.
C20_CurrentRecordShown == fetches = <<>> => ShownForRoute

(***************************************************************************)
(* Role lookup failures (SpecRole).                                        *)
(***************************************************************************)
DoctorQueryNames == {"doctorByUsername", "doctorByEmail"}

PatientQueryNames == {"patientByCognitoId", "patientByEmail"}

\* C21: a call of determineRole always returns a role, which becomes the
\* role of the signed-in user; a Doctor query that throws is caught and
\* the Patient lookup is still made (so a matching Patient record still
\* gives 'patient'); a Patient query that throws is caught and the result
\* is 'unknown'; when every query sent throws the result is 'unknown'; and
\* a throwing Doctor-by-username query skips the Doctor-by-email query, so
\* that call does not resolve to 'doctor'.
C21_RoleLookupFailuresCaught ==
    RoleResolved =>
        /\ lastAuth.role \in Roles
        /\ currentUser = [username |-> lastAuth.ident.username, role |-> lastAuth.role]
        /\ lastAuth.threw \cap DoctorQueryNames # {} =>
              /\ lastAuth.doctorLookup = "error"
              /\ "patientByCognitoId" \in Range(lastAuth.issued)
              /\ lastAuth.patientLookup = "match" => lastAuth.role = "patient"
        /\ lastAuth.threw \cap PatientQueryNames # {} =>
              /\ lastAuth.patientLookup = "error"
              /\ lastAuth.role = "unknown"
        /\ Range(lastAuth.issued) \subseteq lastAuth.threw => lastAuth.role = "unknown"
        /\ "doctorByUsername" \in lastAuth.threw =>
              /\ "doctorByEmail" \notin Range(lastAuth.issued)
              /\ lastAuth.role # "doctor"

\* The Doctor-by-username query threw for an identity whose email is that
\* of a Doctor record; the Patient lookup found a record.
C21_Witness ==
    /\ RoleResolved
    /\ "doctorByUsername" \in lastAuth.threw
    /\ \E d \in qDoctor : d.email = lastAuth.ident.email
    /\ lastAuth.patientLookup = "match"
    /\ lastAuth.role = "patient"

(***************************************************************************)
(* Routes by role (SpecData).                                              *)
(***************************************************************************)
\* AppContent renders PatientList or PatientDetails.
DoctorRouteRendered == DoctorScreens /\ route \in {"/", "patient"}

\* The half of the guard that holds: a user with role 'patient' is on the
\* dashboard or on an experiment's page.
PatientRoutesOnly == PatientScreens => route \in {"/", "experiment"}

\* C22: the patient list and the patient details are rendered only for a
\* signed-in user whose role resolved to 'doctor'; a user with role
\* 'patient' reaches only the dashboard and the experiment page; a user
\* with role 'unknown' is never given the doctor routes.  Refuted:
\* AppContent gives the doctor routes to every role but 'patient'.
C22_RoutesGuardedByRole ==
    /\ DoctorRouteRendered => currentUser.role = "doctor"
    /\ PatientRoutesOnly
    /\ (SignedIn /\ currentUser.role = "unknown") => ~DoctorRouteRendered

(***************************************************************************)
(* The login form (SpecRole).                                              *)
(***************************************************************************)
\* The last call was a submission of the login form, and login() has
\* returned or thrown.
LoginCompleted == lastAuth.op = "login"

\* C23: after a submission of the login form whose login() call has
\* completed, either a user is signed in or the form's loading flag is
\* false again.  Refuted: when signIn resolves with isSignedIn false,
\* login() returns normally and nothing clears the flag.
C23_LoginFormUsableAgain == LoginCompleted => (currentUser # NoUser \/ ~loginLoading)

\* The part that holds: a rejected login() leaves the form usable.
LoginRejectionClearsLoading ==
    (LoginCompleted /\ lastAuth.ident = NoIdent /\ session # NoIdent) => ~loginLoading

(***************************************************************************)
(* What an upload stores (SpecGlue).                                       *)
(***************************************************************************)
\* C24: every stored Experiment was created after the prediction call
\* returned a prediction result with a consensus_prediction; an answer of
\* the prediction service that is an error, a relayed error body included,
\* leaves no record.  Refuted: predict-experiment relays any body and
\* callMLAPI accepts any JSON value that is truthy.
C24_StoredOnlyForPrediction ==
    \A i \in 1..Len(experimentTable) : experimentTable[i].consensusPrediction = "number"

\* The part that holds: a handler that threw, or a query without data,
\* ends the upload before Experiment.create.
NoSaveAfterFailedQuery ==
    [][(glue.fn = "predictExperiment" /\ glue.pc = "done" /\ glue.result.kind = "throws"
          /\ glue'.pc = "idle")
        => /\ Len(pipes') < Len(pipes)
           /\ \A i \in 1..Len(pipes') : pipes'[i].pc # "saving" \/ pipes'[i] \in Range(pipes)]_vars

(***************************************************************************)
(* Uploads in flight (SpecCsv).                                            *)
(***************************************************************************)
Saving == {i \in 1..Len(pipes) : pipes[i].pc = "saving"}

\* C25: at most one handleFile call is in flight in a CSVUpload component,
\* so never two Experiment.create calls at once: a file dropped or chosen
\* while an upload is in progress is ignored.  Refuted: only the spectral
\* revision tests `uploading`.
C25_SingleUploadInFlight == Len(pipes) <= 1 /\ Cardinality(Saving) <= 1

\* The part that holds: the spectral revision runs one call at a time, and
\* `uploading` is true exactly while it runs.
SpectralSingleUpload ==
    revision = "spectral" => (Len(pipes) <= 1 /\ (uploading <=> pipes # <<>>))

(***************************************************************************)
(* How an upload ends (SpecCsv).  lastUpload is "complete" when the call   *)
(* ran onUploadComplete.                                                   *)
(***************************************************************************)
\* A handleFile call ends in this step.
UploadEnds == Len(pipes') < Len(pipes)

\* C26: a handleFile call that ends leaves uploading = false, and it has
\* invoked onUploadComplete if Experiment.create stored the record and not
\* otherwise.  Refuted: a create that resolves with errors is taken for a
\* success.
C26_UploadCompletion ==
    [][UploadEnds =>
          /\ uploading' = FALSE
          /\ lastUpload' = "complete" <=> Len(experimentTable') = Len(experimentTable) + 1]_vars

\* The part that holds: every ending leaves uploading = false, a stored
\* record is followed by onUploadComplete, and a parse rejection, a failed
\* prediction or a thrown error is not.
UploadEndsNotUploading ==
    [][UploadEnds =>
          /\ uploading' = FALSE
          /\ Len(experimentTable') = Len(experimentTable) + 1 => lastUpload' = "complete"
          /\ lastUpload' = "complete" => \E i \in 1..Len(pipes) : pipes[i].pc = "saving"]_vars

(***************************************************************************)
(* The narration player (SpecNarr).                                        *)
(***************************************************************************)
\* The narration is silent and both flags are false.
NarrationOff ==
    /\ ~narration.isSpeaking
    /\ ~narration.isPaused
    /\ ~narration.playing
    /\ ~narration.speaking

\* C27: while the report preview is closed, isSpeaking and isPaused are
\* false and no narration is playing, also when a text-to-speech request
\* was in flight when the preview was closed.  Refuted: the response of
\* that request starts the audio.
C27_ClosedPreviewIsSilent == reportState # "preview" => NarrationOff

\* The part that holds: the step that closes the preview stops everything.
ClosingStopsNarration ==
    [][(reportState = "preview" /\ reportState' # "preview") => NarrationOff']_vars

\* C28: isPaused is true only while isSpeaking is true, and the audio
\* element is playing only while isSpeaking is true and isPaused is false.
\* Refuted: a response, a pause or an utterance end sets one of them
\* without the others.
C28_PlayerFlagsAgree ==
    /\ narration.isPaused => narration.isSpeaking
    /\ narration.playing => (narration.isSpeaking /\ ~narration.isPaused)

(***************************************************************************)
(* The initial session check (FairRole).                                   *)
(***************************************************************************)
\* What AppContent returns.
AppContent ==
    IF isLoading THEN "spinner"
    ELSE IF currentUser = NoUser THEN "Login"
    ELSE IF currentUser.role = "patient" THEN "patientRoutes"
    ELSE "doctorRoutes"

\* C29: after AuthProvider has mounted isLoading becomes false, whatever
\* checkUser meets; while isLoading is true AppContent renders the spinner,
\* so no login and no other handler runs before checkUser has ended; and
\* when getCurrentUser or fetchUserAttributes fails, currentUser is null.
C29_SessionCheckEnds ==
    /\ isLoading ~> ~isLoading
    /\ [](isLoading => (AppContent = "spinner" /\ currentUser = NoUser))
    /\ [][isLoading => (lastAuth'.op = "checkUser" /\ ~isLoading')]_vars
    /\ []((lastAuth.op = "checkUser" /\ lastAuth.ident = NoIdent)
            => (~isLoading /\ currentUser = NoUser /\ AppContent = "Login"))

\* A session exists, the check failed before the role lookup, and the
\* login form is shown.
C29_Witness ==
    /\ lastAuth.op = "checkUser"
    /\ lastAuth.ident = NoIdent
    /\ session # NoIdent
    /\ ~isLoading
    /\ currentUser = NoUser

(***************************************************************************)
(* The generated patient password (SpecPwd).                               *)
(***************************************************************************)
CharsOf(alphabet) == {alphabet[k] : k \in 1..Len(alphabet)}

Contains(s, alphabet) == \E k \in 1..Len(s) : s[k] \in CharsOf(alphabet)

\* C30: every password generatePassword returns has exactly 12 characters,
\* each of them a lowercase letter, an uppercase letter, a digit or one of
\* !@#$%^&*, and holds at least one character of each of the four kinds.
C30_PasswordShape ==
    password.pc = "returned" =>
        /\ Len(password.chars) = 12
        /\ \A k \in 1..Len(password.chars) : password.chars[k] \in CharsOf(allChars)
        /\ Contains(password.chars, uppercase)
        /\ Contains(password.chars, lowercase)
        /\ Contains(password.chars, numbers)
        /\ Contains(password.chars, special)

\* A password was returned whose first character is not the uppercase
\* letter drawn first, and whose draws include the last special character.
C30_Witness ==
    /\ password.pc = "returned"
    /\ password.chars[1] \notin CharsOf(uppercase)
    /\ \E k \in 1..Len(password.chars) : password.chars[k] = "*"

====
